---- MODULE Spec2Model ----
(***************************************************************************)
(* Credential and session integrity of the authflow service: the signed    *)
(* session tokens (jwt.ts), the login and logout services, the access      *)
(* token middleware, the Redis fixed-window rate limiter, the password      *)
(* reset service, the two-factor setup service, registration and email     *)
(* verification, the rate-limited routes and the SSO callback.             *)
(*                                                                         *)
(* Time is in milliseconds, as Date.now() gives it.  A JWT carries its     *)
(* expiry in whole seconds, a Redis key its time to live in whole seconds. *)
(***************************************************************************)
EXTENDS Integers, Sequences, FiniteSets, TLC

VARIABLES
  now,                \* Date.now(), milliseconds
  users,              \* table Users: id -> row
  twoFactorSettings,  \* table Two_Factor_Settings: user id -> row (or absent)
  refresh_Tokens,     \* table Refresh_Tokens: set of rows
  blacklisted_Tokens, \* table Blacklisted_Tokens: rows in insertion (id) order
  issued,             \* token pairs that were handed back to a caller
  last,               \* request and response of the last service call
  redis,              \* the rate limiter's store: key -> counter and expiry
  calls,              \* RateLimiter.check calls: position and result of each
  password_Resets,    \* table Password_Resets: token -> row (or absent)
  backup_Codes,       \* table Two_Factor_Backup_Codes: set of rows
  setups,             \* enable2FA and verify2FA calls: position and result
  probe,              \* the last direct call of verify2FAToken
  email_verified,     \* column email_verified of Users: id -> flag
  email_Verifications, \* table Email_Verifications: rows in insertion (id) order
  failedLogins,       \* history: logins answered INVALID_CREDENTIALS since the
                      \* counter of the login key was created
  is_active,          \* column is_active of Users: id -> flag
  stateCache,         \* the Map of CSRF states: state -> entry (or absent)
  login_Methods,      \* table Login_Methods: set of rows
  ssoStates,          \* history: the states handed out, and which were accepted
  txs                 \* resetPassword and forgotPassword calls between their
                      \* statements: position and result of each

vars == <<now, users, twoFactorSettings, refresh_Tokens, blacklisted_Tokens,
          issued, last, redis, calls, password_Resets, backup_Codes, setups,
          probe, email_verified, email_Verifications, failedLogins,
          is_active, stateCache, login_Methods, ssoStates, txs>>

authVars == <<users, twoFactorSettings, refresh_Tokens, blacklisted_Tokens,
              issued, last>>
rlVars == <<redis, calls>>
acctVars == <<password_Resets, backup_Codes, setups, probe>>
mailVars == <<email_verified, email_Verifications>>
routeVars == <<failedLogins>>
flagVars == <<is_active>>
ssoVars == <<stateCache, login_Methods, ssoStates>>
txVars == <<txs>>

----------------------------------------------------------------------------
(* Bounds of the model *)

MaxTokens == 1      \* token pairs issued in one behaviour
MaxPeriods == 1     \* multiples of each lifetime the clock visits
MaxBlacklist == 3   \* rows of Blacklisted_Tokens
StepSlack == 2      \* TOTP codes are presented up to this many steps off
MaxSteps == 2       \* TOTP time steps the clock passes one by one
MaxCalls == 4       \* calls of RateLimiter.check
MaxHalfWindows == 2 \* half windows the limiter's clock passes
max == 2            \* the ceiling of the limiter under study
MaxResets == 1      \* password reset requests created
MaxSetups == 3      \* calls of enable2FA and verify2FA
MaxVerifications == 2 \* rows of Email_Verifications
MaxAccounts == 3    \* rows of Users
MaxOver == 2        \* requests a route takes beyond the ceiling of its limiter
MaxStates == 2      \* CSRF states handed out
MaxTxs == 2         \* resetPassword and forgotPassword calls in flight
MaxLate == 1        \* milliseconds the clock goes beyond the lifetime of a state

----------------------------------------------------------------------------
(* Program constants *)

JWT_ACCESS_EXPIRES == 3600000      \* ms('1h')
JWT_REFRESH_EXPIRES == 604800000   \* ms('7d')
TOKEN_EXPIRY_MS == 86400000        \* 24 * 60 * 60 * 1000
TOTP_STEP == 30                    \* seconds
TOTP_WINDOW == 1
TOTP_DIGITS == 6
BACKUP_CODE_COUNT == 8
BACKUP_CODE_DIGITS == 10
TOKEN_BYTE_LENGTH == 32            \* random bytes of a mailed token
CODE_LENGTH == 6                   \* characters verifyEmail asks of a code
STATE_TOKEN_EXPIRY == 600000       \* 10 * 60 * 1000
WILDCARD == -1                     \* token_identifier '*': no jti is equal to it

ACCESS_SECRET == "your-access-secret"
REFRESH_SECRET == "your-refresh-secret"
OTHER_SECRET == "not-a-server-secret"

----------------------------------------------------------------------------
(* Values *)

Lower == {"a","b","c","d","e","f","g","h","i","j","k","l","m",
          "n","o","p","q","r","s","t","u","v","w","x","y","z"}
Upper == {"A","B","C","D","E","F","G","H","I","J","K","L","M",
          "N","O","P","Q","R","S","T","U","V","W","X","Y","Z"}
Digit == {"0","1","2","3","4","5","6","7","8","9"}

WordChars == Lower \cup Upper \cup Digit \cup {"_"}

\* /^[a-zA-Z0-9_]{3,50}$/ on a username given as its sequence of characters
validateUsername(username) ==
  /\ Len(username) >= 3
  /\ Len(username) <= 50
  /\ \A i \in 1..Len(username) : username[i] \in WordChars

\* bcrypt.hash: the stored value determines the password it was made from
hashPassword(password) == [alg |-> "bcrypt", of |-> password]

\* bcrypt.compare
comparePassword(password, hash) == hash = hashPassword(password)

UserIds == {1, 2}
Alice == <<"a","l","i","c","e">>
Bob == <<"b","o","b">>
Carol == <<"c","a","r","o","l">>
Mallory == <<"a","l","!","c","e">>
Usernames == {Alice, Bob, Carol, Mallory}
Secret1A == <<"S","e","c","r","e","t","1","A">>
Hunter2B == <<"H","u","n","t","e","r","2","B">>
Passwords == {Secret1A, Hunter2B}

NoSettings == [present |-> FALSE, secret |-> 0, is_enabled |-> FALSE,
               enabled_at |-> -1]
NoCode == [digits |-> 0, val |-> 0]
NoToken == [sig |-> "none", user_id |-> 0, jti |-> 0, exp |-> 0]
NoPair == [accessToken |-> NoToken, refreshToken |-> NoToken]

----------------------------------------------------------------------------
(* utils/2fa *)

\* the time step a TOTP code is computed for
totpCounter(t) == (t \div 1000) \div TOTP_STEP

\* the code an authenticator shows for a secret in a time step; a stand-in
\* for the HMAC truncation that keeps different (secret, step) apart
totpCode(secret, counter) ==
  [digits |-> TOTP_DIGITS, val |-> (secret * 100003 + counter) % 1000000]

\* a verification that accepts the code of the current time step only
verify2FAToken_NoWindow(secret, token, t) ==
  /\ token.digits = TOTP_DIGITS
  /\ token = totpCode(secret, totpCounter(t))

\* authenticator.verify({token, secret}) with window 1; false on any failure
verify2FAToken(secret, token, t) ==
  /\ token.digits = TOTP_DIGITS
  /\ \E d \in (0 - TOTP_WINDOW)..TOTP_WINDOW :
       /\ totpCounter(t) + d >= 0
       /\ token = totpCode(secret, totpCounter(t) + d)

----------------------------------------------------------------------------
(* utils/jwt *)

\* jwt.sign(payload, secret, {expiresIn}): exp is in seconds
jwtSign(user_id, jti, secret, expiresInMs, t) ==
  [sig |-> secret, user_id |-> user_id, jti |-> jti,
   exp |-> (t \div 1000) + (expiresInMs \div 1000)]

\* jwt.verify(token, secret): the signature matches and the token is unexpired
jwtVerify(token, secret, t) ==
  /\ token.sig = secret
  /\ (t \div 1000) < token.exp

\* a verification that also turns away a token whose jti is blacklisted
verifyAccessToken_ChecksBlacklist(token, t) ==
  /\ jwtVerify(token, ACCESS_SECRET, t)
  /\ ~\E i \in 1..Len(blacklisted_Tokens) :
        /\ blacklisted_Tokens[i].token_identifier = token.jti
        /\ blacklisted_Tokens[i].token_type = "access"

verifyAccessToken(token, t) == jwtVerify(token, ACCESS_SECRET, t)

\* a verifyRefreshToken that trusts the signature and asks no store
verifyRefreshToken_SignatureOnly(token, t, table) ==
  jwtVerify(token, REFRESH_SECRET, t)

verifyRefreshToken(token, t, table) ==
  /\ jwtVerify(token, REFRESH_SECRET, t)
  /\ \E row \in table : row.token = token

\* uuidv4(): an identifier no token carries yet
freshJti(pairs) ==
  CHOOSE j \in 1..(Cardinality(pairs) + 1) :
    \A p \in pairs : p.accessToken.jti # j

\* a generateTokens that logs a failed write and returns the tokens anyway
generateTokens_ReturnsOnFailure(userId, t, pairs, table, storeFails) ==
  LET jti == freshJti(pairs)
      accessToken == jwtSign(userId, jti, ACCESS_SECRET, JWT_ACCESS_EXPIRES, t)
      refreshToken == jwtSign(userId, jti, REFRESH_SECRET, JWT_REFRESH_EXPIRES, t)
      row == [token |-> refreshToken, user_id |-> userId,
              expires_at |-> t + JWT_REFRESH_EXPIRES]
  IN [threw |-> FALSE,
      tokens |-> [accessToken |-> accessToken, refreshToken |-> refreshToken],
      table |-> IF storeFails THEN table ELSE table \cup {row}]

\* a generateTokens that signs both tokens with the refresh secret
generateTokens_OneSecret(userId, t, pairs, table, storeFails) ==
  LET jti == freshJti(pairs)
      accessToken == jwtSign(userId, jti, REFRESH_SECRET, JWT_ACCESS_EXPIRES, t)
      refreshToken == jwtSign(userId, jti, REFRESH_SECRET, JWT_REFRESH_EXPIRES, t)
      row == [token |-> refreshToken, user_id |-> userId,
              expires_at |-> t + JWT_REFRESH_EXPIRES]
  IN IF storeFails
       THEN [threw |-> TRUE, tokens |-> NoPair, table |-> table]
       ELSE [threw |-> FALSE,
             tokens |-> [accessToken |-> accessToken, refreshToken |-> refreshToken],
             table |-> table \cup {row}]

\* generateTokens(userId): signs both tokens, then stores the refresh token;
\* a failed write makes the call throw
generateTokens(userId, t, pairs, table, storeFails) ==
  LET jti == freshJti(pairs)
      accessToken == jwtSign(userId, jti, ACCESS_SECRET, JWT_ACCESS_EXPIRES, t)
      refreshToken == jwtSign(userId, jti, REFRESH_SECRET, JWT_REFRESH_EXPIRES, t)
      row == [token |-> refreshToken, user_id |-> userId,
              expires_at |-> t + JWT_REFRESH_EXPIRES]
  IN IF storeFails
       THEN [threw |-> TRUE, tokens |-> NoPair, table |-> table]
       ELSE [threw |-> FALSE,
             tokens |-> [accessToken |-> accessToken, refreshToken |-> refreshToken],
             table |-> table \cup {row}]

----------------------------------------------------------------------------
(* services/authService: login *)

\* prisma.users.findUnique({where: {username}}); 0 when there is none
findUserByUsername(table, username) ==
  IF \E id \in DOMAIN table : table[id].username = username
    THEN CHOOSE id \in DOMAIN table : table[id].username = username
    ELSE 0

statusOf(code) ==
  CASE code = "OK" -> 200
    [] code = "INVALID_USERNAME" -> 400
    [] code = "INTERNAL_SERVER_ERROR" -> 500
    [] OTHER -> 401

\* the i18n key of the message login's APIError carries (an empty 2FA
\* secret, which no account of the model has, has a message of its own)
messageOf(code) ==
  CASE code = "OK" -> "none"
    [] code = "INVALID_USERNAME" -> "auth.errors.invalidUsername"
    [] code = "INVALID_CREDENTIALS" -> "auth.errors.invalidCredentials"
    [] code = "TWO_FACTOR_REQUIRED" -> "auth.errors.twoFactorRequired"
    [] code = "INVALID_2FA_CODE" -> "auth.errors.invalid2FACode"
    [] OTHER -> "auth.errors.loginFailed"

\* error details without the flag
detailsOf_NoFlag(code) == [requires2FA |-> FALSE]

\* the details of login's APIError, and requires2FA of its result
detailsOf(code) == [requires2FA |-> code = "TWO_FACTOR_REQUIRED"]

\* a login that answers a missing account with an error of its own
loginChecks_UserNotFound(table, settings, username, password, code, fault, t) ==
  IF ~validateUsername(username) THEN "INVALID_USERNAME"
  ELSE IF fault = "lookup" THEN "INTERNAL_SERVER_ERROR"
  ELSE LET id == findUserByUsername(table, username) IN
    IF id = 0 THEN "USER_NOT_FOUND"
    ELSE IF ~comparePassword(password, table[id].password_hash)
      THEN "INVALID_CREDENTIALS"
    ELSE IF settings[id].present /\ settings[id].is_enabled
      THEN IF code = NoCode THEN "TWO_FACTOR_REQUIRED"
           ELSE IF settings[id].secret = 0 THEN "INTERNAL_SERVER_ERROR"
           ELSE IF ~verify2FAToken(settings[id].secret, code, t)
             THEN "INVALID_2FA_CODE"
           ELSE "PASS"
    ELSE "PASS"

\* a login that never asks for the second factor
loginChecks_No2FA(table, settings, username, password, code, fault, t) ==
  IF ~validateUsername(username) THEN "INVALID_USERNAME"
  ELSE IF fault = "lookup" THEN "INTERNAL_SERVER_ERROR"
  ELSE LET id == findUserByUsername(table, username) IN
    IF id = 0 THEN "INVALID_CREDENTIALS"
    ELSE IF ~comparePassword(password, table[id].password_hash)
      THEN "INVALID_CREDENTIALS"
    ELSE "PASS"

\* a login that turns away an account whose is_active flag is false
loginChecks_ActiveOnly(table, settings, username, password, code, fault, t) ==
  IF ~validateUsername(username) THEN "INVALID_USERNAME"
  ELSE IF fault = "lookup" THEN "INTERNAL_SERVER_ERROR"
  ELSE LET id == findUserByUsername(table, username) IN
    IF id = 0 THEN "INVALID_CREDENTIALS"
    ELSE IF ~comparePassword(password, table[id].password_hash)
      THEN "INVALID_CREDENTIALS"
    ELSE IF ~is_active[id] THEN "INVALID_CREDENTIALS"
    ELSE IF settings[id].present /\ settings[id].is_enabled
      THEN IF code = NoCode THEN "TWO_FACTOR_REQUIRED"
           ELSE IF settings[id].secret = 0 THEN "INTERNAL_SERVER_ERROR"
           ELSE IF ~verify2FAToken(settings[id].secret, code, t)
             THEN "INVALID_2FA_CODE"
           ELSE "PASS"
    ELSE "PASS"

\* the checks of login up to the call of generateTokens: the error thrown,
\* or "PASS"
loginChecks(table, settings, username, password, code, fault, t) ==
  IF ~validateUsername(username) THEN "INVALID_USERNAME"
  ELSE IF fault = "lookup" THEN "INTERNAL_SERVER_ERROR"
  ELSE LET id == findUserByUsername(table, username) IN
    IF id = 0 THEN "INVALID_CREDENTIALS"
    ELSE IF ~comparePassword(password, table[id].password_hash)
      THEN "INVALID_CREDENTIALS"
    ELSE IF settings[id].present /\ settings[id].is_enabled
      THEN IF code = NoCode THEN "TWO_FACTOR_REQUIRED"
           ELSE IF settings[id].secret = 0 THEN "INTERNAL_SERVER_ERROR"
           ELSE IF ~verify2FAToken(settings[id].secret, code, t)
             THEN "INVALID_2FA_CODE"
           ELSE "PASS"
    ELSE "PASS"

\* the codes a caller may present at time t
CodesAt(t) ==
  {NoCode, [digits |-> 5, val |-> 12345], totpCode(22, totpCounter(t))} \cup
  { totpCode(11, k) :
      k \in { c \in (totpCounter(t) - StepSlack)..(totpCounter(t) + StepSlack) : c >= 0 } }

Faults == {"none", "lookup", "persist"}

login(username, password, code, fault) ==
  LET checks == loginChecks(users, twoFactorSettings, username, password, code, fault, now)
      id == findUserByUsername(users, username)
      gen == generateTokens(id, now, issued, refresh_Tokens, fault = "persist")
      result == IF checks # "PASS" THEN checks
                ELSE IF gen.threw THEN "INTERNAL_SERVER_ERROR" ELSE "OK"
  IN /\ (checks = "PASS" /\ ~gen.threw) => Cardinality(issued) < MaxTokens
     /\ refresh_Tokens' = IF checks = "PASS" THEN gen.table ELSE refresh_Tokens
     /\ issued' = IF result = "OK" THEN issued \cup {gen.tokens} ELSE issued
     /\ last' = [op |-> "login", at |-> now, code |-> result,
                 status |-> statusOf(result), tok |-> NoToken,
                 out |-> IF result = "OK" THEN gen.tokens ELSE NoPair,
                 message |-> messageOf(result), details |-> detailsOf(result)]
     /\ UNCHANGED <<now, users, twoFactorSettings, blacklisted_Tokens>>
     /\ UNCHANGED rlVars
     /\ UNCHANGED acctVars
     /\ UNCHANGED mailVars
     /\ UNCHANGED routeVars
     /\ UNCHANGED flagVars
     /\ UNCHANGED ssoVars
     /\ UNCHANGED txVars

Login ==
  \E username \in Usernames, password \in Passwords, code \in CodesAt(now),
     fault \in Faults : login(username, password, code, fault)

\* logins of the two accounts, with and without the current code
Signin ==
  \E username \in {Alice, Bob}, password \in Passwords,
     code \in {NoCode, totpCode(11, totpCounter(now))},
     fault \in {"none", "persist"} : login(username, password, code, fault)

----------------------------------------------------------------------------
(* services/logoutService: logout *)

\* the tokens a caller can present: those handed back, used for either
\* purpose, and copies signed with a key that is not the server's
forge(token) == [token EXCEPT !.sig = OTHER_SECRET]

Presentable ==
  {p.accessToken : p \in issued} \cup {p.refreshToken : p \in issued}
    \cup {forge(p.accessToken) : p \in issued}

blacklistRow(user_id, jti, type, t) ==
  [user_id |-> user_id, token_identifier |-> jti, token_type |-> type,
   expires_at |-> t + TOKEN_EXPIRY_MS]

\* a logout that blacklists the refresh token and leaves its record
logoutTransaction_KeepsRecord(accessToken, refresh_token, verifyFails, t, blacklist, table) ==
  LET withAccess == Append(blacklist,
                      blacklistRow(accessToken.user_id, accessToken.jti, "access", t))
  IN IF refresh_token # NoToken /\ ~verifyFails
          /\ verifyRefreshToken(refresh_token, t, table)
       THEN [blacklist |-> Append(withAccess,
                             blacklistRow(accessToken.user_id, refresh_token.jti, "refresh", t)),
             table |-> table]
       ELSE [blacklist |-> withAccess, table |-> table]

\* a logout that handles the refresh token before the access token
logoutTransaction_RefreshFirst(accessToken, refresh_token, verifyFails, t, blacklist, table) ==
  LET accessRow == blacklistRow(accessToken.user_id, accessToken.jti, "access", t)
  IN IF refresh_token # NoToken /\ ~verifyFails
          /\ verifyRefreshToken(refresh_token, t, table)
       THEN [blacklist |-> Append(Append(blacklist,
                             blacklistRow(accessToken.user_id, refresh_token.jti, "refresh", t)),
                             accessRow),
             table |-> {row \in table : row.token # refresh_token}]
       ELSE [blacklist |-> Append(blacklist, accessRow), table |-> table]

\* a logout whose transaction is undone when the refresh token is refused
logoutTransaction_RefreshRequired(accessToken, refresh_token, verifyFails, t, blacklist, table) ==
  LET withAccess == Append(blacklist,
                      blacklistRow(accessToken.user_id, accessToken.jti, "access", t))
  IN IF refresh_token = NoToken
       THEN [blacklist |-> withAccess, table |-> table]
     ELSE IF ~verifyFails /\ verifyRefreshToken(refresh_token, t, table)
       THEN [blacklist |-> Append(withAccess,
                             blacklistRow(accessToken.user_id, refresh_token.jti, "refresh", t)),
             table |-> {row \in table : row.token # refresh_token}]
       ELSE [blacklist |-> blacklist, table |-> table]

\* the body of logout's transaction: the tables as it leaves them.
\* verifyFails: the lookup inside verifyRefreshToken throws
logoutTransaction(accessToken, refresh_token, verifyFails, t, blacklist, table) ==
  LET withAccess == Append(blacklist,
                      blacklistRow(accessToken.user_id, accessToken.jti, "access", t))
  IN IF refresh_token # NoToken /\ ~verifyFails
          /\ verifyRefreshToken(refresh_token, t, table)
       THEN [blacklist |-> Append(withAccess,
                             blacklistRow(accessToken.user_id, refresh_token.jti, "refresh", t)),
             table |-> {row \in table : row.token # refresh_token}]
       ELSE [blacklist |-> withAccess, table |-> table]

LogoutFaults == {"none", "verify", "transaction"}

\* a logout that opens the transaction whatever the access token is
logout_NoAccessCheck(accessToken, refresh_token, fault) ==
  LET tx == logoutTransaction(accessToken, refresh_token, fault = "verify", now,
                              blacklisted_Tokens, refresh_Tokens)
      done == fault # "transaction"
  IN /\ done => Len(tx.blacklist) <= MaxBlacklist
     /\ blacklisted_Tokens' = IF done THEN tx.blacklist ELSE blacklisted_Tokens
     /\ refresh_Tokens' = IF done THEN tx.table ELSE refresh_Tokens
     /\ last' = [op |-> "logout", at |-> now,
                 code |-> IF done THEN "OK" ELSE "INVALID_TOKEN",
                 status |-> IF done THEN 200 ELSE 401,
                 tok |-> accessToken, out |-> NoPair]
     /\ UNCHANGED <<now, users, twoFactorSettings, issued>>
     /\ UNCHANGED rlVars
     /\ UNCHANGED acctVars
     /\ UNCHANGED mailVars
     /\ UNCHANGED routeVars
     /\ UNCHANGED flagVars
     /\ UNCHANGED ssoVars
     /\ UNCHANGED txVars

\* a logout over a blacklist that refuses a second row for one token
logout_UniqueConstraint(accessToken, refresh_token, fault) ==
  LET valid == verifyAccessToken(accessToken, now)
      tx == logoutTransaction(accessToken, refresh_token, fault = "verify", now,
                              blacklisted_Tokens, refresh_Tokens)
      duplicate == \E i \in 1..Len(blacklisted_Tokens) :
                     /\ blacklisted_Tokens[i].token_identifier = accessToken.jti
                     /\ blacklisted_Tokens[i].token_type = "access"
      done == valid /\ fault # "transaction" /\ ~duplicate
  IN /\ done => Len(tx.blacklist) <= MaxBlacklist
     /\ blacklisted_Tokens' = IF done THEN tx.blacklist ELSE blacklisted_Tokens
     /\ refresh_Tokens' = IF done THEN tx.table ELSE refresh_Tokens
     /\ last' = [op |-> "logout", at |-> now,
                 code |-> IF done THEN "OK" ELSE "INVALID_TOKEN",
                 status |-> IF done THEN 200 ELSE 401,
                 tok |-> accessToken, out |-> NoPair]
     /\ UNCHANGED <<now, users, twoFactorSettings, issued>>
     /\ UNCHANGED rlVars
     /\ UNCHANGED acctVars
     /\ UNCHANGED mailVars
     /\ UNCHANGED routeVars
     /\ UNCHANGED flagVars
     /\ UNCHANGED ssoVars
     /\ UNCHANGED txVars

logout(accessToken, refresh_token, fault) ==
  LET valid == verifyAccessToken(accessToken, now)
      tx == logoutTransaction(accessToken, refresh_token, fault = "verify", now,
                              blacklisted_Tokens, refresh_Tokens)
      done == valid /\ fault # "transaction"
  IN /\ done => Len(tx.blacklist) <= MaxBlacklist
     /\ blacklisted_Tokens' = IF done THEN tx.blacklist ELSE blacklisted_Tokens
     /\ refresh_Tokens' = IF done THEN tx.table ELSE refresh_Tokens
     /\ last' = [op |-> "logout", at |-> now,
                 code |-> IF done THEN "OK" ELSE "INVALID_TOKEN",
                 status |-> IF done THEN 200 ELSE 401,
                 tok |-> accessToken, out |-> NoPair]
     /\ UNCHANGED <<now, users, twoFactorSettings, issued>>
     /\ UNCHANGED rlVars
     /\ UNCHANGED acctVars
     /\ UNCHANGED mailVars
     /\ UNCHANGED routeVars
     /\ UNCHANGED flagVars
     /\ UNCHANGED ssoVars
     /\ UNCHANGED txVars

Logout ==
  \E accessToken \in Presentable, refresh_token \in Presentable \cup {NoToken},
     fault \in LogoutFaults : logout(accessToken, refresh_token, fault)

----------------------------------------------------------------------------
(* middleware/authMiddleware *)

\* validateAccessToken on the bearer token of a request (NoToken: no header)
validateAccessToken(token, t) ==
  IF token = NoToken THEN [isValid |-> FALSE, code |-> "UNAUTHORIZED", status |-> 401]
  ELSE IF ~verifyAccessToken(token, t)
    THEN [isValid |-> FALSE, code |-> "INVALID_TOKEN", status |-> 401]
  ELSE [isValid |-> TRUE, code |-> "OK", status |-> 200]

\* a request to a protected endpoint: authMiddleware answers the error or
\* passes the request to the handler
authMiddleware(token) ==
  LET v == validateAccessToken(token, now)
  IN /\ last' = [op |-> "request", at |-> now, code |-> v.code,
                 status |-> v.status, tok |-> token, out |-> NoPair]
     /\ UNCHANGED <<now, users, twoFactorSettings, refresh_Tokens,
                    blacklisted_Tokens, issued>>
     /\ UNCHANGED rlVars
     /\ UNCHANGED acctVars
     /\ UNCHANGED mailVars
     /\ UNCHANGED routeVars
     /\ UNCHANGED flagVars
     /\ UNCHANGED ssoVars
     /\ UNCHANGED txVars

Request == \E token \in Presentable \cup {NoToken} : authMiddleware(token)

\* a caller asks verifyRefreshToken about a token
verifyRefresh(token, lookupFails) ==
  LET ok == ~lookupFails /\ verifyRefreshToken(token, now, refresh_Tokens)
  IN /\ last' = [op |-> "verifyRefresh", at |-> now,
                 code |-> IF ok THEN "OK" ELSE "INVALID_REFRESH_TOKEN",
                 status |-> IF ok THEN 200 ELSE 401, tok |-> token, out |-> NoPair]
     /\ UNCHANGED <<now, users, twoFactorSettings, refresh_Tokens,
                    blacklisted_Tokens, issued>>
     /\ UNCHANGED rlVars
     /\ UNCHANGED acctVars
     /\ UNCHANGED mailVars
     /\ UNCHANGED routeVars
     /\ UNCHANGED flagVars
     /\ UNCHANGED ssoVars
     /\ UNCHANGED txVars

VerifyRefresh ==
  \E token \in Presentable, lookupFails \in BOOLEAN : verifyRefresh(token, lookupFails)

----------------------------------------------------------------------------
(* The clock *)

Lifetimes == {JWT_ACCESS_EXPIRES, TOKEN_EXPIRY_MS, JWT_REFRESH_EXPIRES}

\* the instants at which a lifetime that began at 0 has run out
TimePoints == { k * d : k \in 0..MaxPeriods, d \in Lifetimes }

\* the clock moves on to a later instant
Tick ==
  /\ \E t \in TimePoints : t > now /\ now' = t
  /\ UNCHANGED authVars
  /\ UNCHANGED rlVars
  /\ UNCHANGED acctVars
  /\ UNCHANGED mailVars
  /\ UNCHANGED routeVars
  /\ UNCHANGED flagVars
  /\ UNCHANGED ssoVars
  /\ UNCHANGED txVars

\* the clock passes one TOTP time step
TickStep ==
  /\ totpCounter(now) < MaxSteps
  /\ now' = now + TOTP_STEP * 1000
  /\ UNCHANGED authVars
  /\ UNCHANGED rlVars
  /\ UNCHANGED acctVars
  /\ UNCHANGED mailVars
  /\ UNCHANGED routeVars
  /\ UNCHANGED flagVars
  /\ UNCHANGED ssoVars
  /\ UNCHANGED txVars

----------------------------------------------------------------------------
(* middleware/rateLimit: RateLimiter *)

\* the limiter under study: new RateLimiter({windowMs, max, keyPrefix})
windowMs == 60000
keyPrefix == "rl:test:"

Ips == {"10.0.0.1"}
CallIds == 1..MaxCalls

\* defaultKeyGenerator: `${keyPrefix}${ip}`
defaultKeyGenerator(ip) == <<keyPrefix, ip>>
Keys == {defaultKeyGenerator(ip) : ip \in Ips}

\* Math.ceil(windowMs / 1000)
expireSeconds == (windowMs + 999) \div 1000

NoEntry == [n |-> 0, expireAt |-> -1]

\* the entry of a key as the store sees it at time t: gone once its time to
\* live has run out (expireAt -1: no time to live set)
entryAt(store, key, t) ==
  IF store[key].n > 0 /\ (store[key].expireAt = -1 \/ t < store[key].expireAt)
    THEN store[key] ELSE NoEntry

\* a script that sets the expiry on every call
luaScript_AlwaysExpire(entry, seconds, t) ==
  LET current == entry.n + 1
  IN [current |-> current,
      entry |-> [n |-> current, expireAt |-> t + seconds * 1000]]

\* the Lua script, run atomically by the store:
\*   local current = redis.call("INCR", KEYS[1])
\*   if tonumber(current) == 1 then redis.call("EXPIRE", KEYS[1], ARGV[1]) end
\*   return current
luaScript(entry, seconds, t) ==
  LET current == entry.n + 1
  IN [current |-> current,
      entry |-> [n |-> current,
                 expireAt |-> IF current = 1 THEN t + seconds * 1000
                              ELSE entry.expireAt]]

\* a check that rejects the call that reaches the ceiling
checkResult_BelowCeiling(current) ==
  [success |-> current < max, current |-> current,
   remaining |-> IF max - current > 0 THEN max - current ELSE 0]

\* what check returns for the reply of the store
checkResult(current) ==
  [success |-> current <= max, current |-> current,
   remaining |-> IF max - current > 0 THEN max - current ELSE 0]

\* a check that turns the request away when the store fails
checkOnError_FailClosed == [success |-> FALSE, current |-> 0, remaining |-> 0]

\* what check returns when redis.eval rejects
checkOnError == [success |-> TRUE, current |-> 0, remaining |-> max]

NoResult == [success |-> FALSE, current |-> -1, remaining |-> -1]
Idle == [pc |-> "idle", key |-> <<>>, reply |-> 0, deadline |-> -1, result |-> NoResult]

\* check, up to the await: the key is computed and the script is sent
CheckSend(c, ip) ==
  /\ calls[c].pc = "idle"
  /\ \A d \in 1..(c - 1) : calls[d].pc # "idle"
  /\ calls' = [calls EXCEPT ![c] = [Idle EXCEPT !.pc = "sent",
                                                !.key = defaultKeyGenerator(ip)]]
  /\ UNCHANGED <<redis, now>>
  /\ UNCHANGED authVars
  /\ UNCHANGED acctVars
  /\ UNCHANGED mailVars
  /\ UNCHANGED routeVars
  /\ UNCHANGED flagVars
  /\ UNCHANGED ssoVars
  /\ UNCHANGED txVars

\* the store runs the script of call c, or the call fails: before the script
\* ran ("unreached") or after it ran, on the way back ("lost").
\* deadline notes the key's expiry as the script left it.
StoreEval(c, fault) ==
  /\ calls[c].pc = "sent"
  /\ LET key == calls[c].key
         run == luaScript(entryAt(redis, key, now), expireSeconds, now)
     IN /\ redis' = IF fault = "unreached" THEN redis
                    ELSE [redis EXCEPT ![key] = run.entry]
        /\ calls' = [calls EXCEPT
                       ![c].pc = IF fault = "none" THEN "replied" ELSE "failed",
                       ![c].reply = IF fault = "none" THEN run.current ELSE 0,
                       ![c].deadline = IF fault = "none" THEN run.entry.expireAt ELSE -1]
  /\ UNCHANGED now
  /\ UNCHANGED authVars
  /\ UNCHANGED acctVars
  /\ UNCHANGED mailVars
  /\ UNCHANGED routeVars
  /\ UNCHANGED flagVars
  /\ UNCHANGED ssoVars
  /\ UNCHANGED txVars

\* check, after the await: the result is computed from the reply
CheckReturn(c) ==
  /\ calls[c].pc \in {"replied", "failed"}
  /\ calls' = [calls EXCEPT ![c].pc = "returned",
                            ![c].result = IF calls[c].pc = "replied"
                                            THEN checkResult(calls[c].reply)
                                            ELSE checkOnError]
  /\ UNCHANGED <<redis, now>>
  /\ UNCHANGED authVars
  /\ UNCHANGED acctVars
  /\ UNCHANGED mailVars
  /\ UNCHANGED routeVars
  /\ UNCHANGED flagVars
  /\ UNCHANGED ssoVars
  /\ UNCHANGED txVars

\* the clock passes half a window
TickWindow ==
  /\ now < MaxHalfWindows * (windowMs \div 2)
  /\ now' = now + windowMs \div 2
  /\ UNCHANGED rlVars
  /\ UNCHANGED authVars
  /\ UNCHANGED acctVars
  /\ UNCHANGED mailVars
  /\ UNCHANGED routeVars
  /\ UNCHANGED flagVars
  /\ UNCHANGED ssoVars
  /\ UNCHANGED txVars

----------------------------------------------------------------------------
(* services/passwordService: forgotPassword and resetPassword *)

\* /^(?=.*[a-z])(?=.*[A-Z])(?=.*\d).{8,}$/
validatePassword(password) ==
  /\ \E i \in 1..Len(password) : password[i] \in Lower
  /\ \E i \in 1..Len(password) : password[i] \in Upper
  /\ \E i \in 1..Len(password) : password[i] \in Digit
  /\ Len(password) >= 8

Short1a == <<"S","h","o","r","t","1","a">>
NewPasswords == Passwords \cup {Short1a}

\* reset tokens are numbered in the order they are drawn; 0 was never drawn
ResetTokens == 1..MaxResets
NoReset == [present |-> FALSE, user_id |-> 0, expires_at |-> 0, is_used |-> FALSE]

\* a lookup that does not ask whether the request was used
findResetRequest_IgnoresUsed(resets, token, t) ==
  /\ token \in DOMAIN resets
  /\ resets[token].present
  /\ resets[token].expires_at > t

\* findFirst({where: {token, expires_at: {gt: now}, is_used: false}})
findResetRequest(resets, token, t) ==
  /\ token \in DOMAIN resets
  /\ resets[token].present
  /\ resets[token].expires_at > t
  /\ ~resets[token].is_used

\* findFirst({where: {user_id, expires_at: {gt: now}, is_used: false}})
hasOpenRequest(resets, id, t) ==
  \E token \in DOMAIN resets :
    resets[token].user_id = id /\ findResetRequest(resets, token, t)

\* crypto.randomBytes(TOKEN_BYTE_LENGTH): a token no request carries yet
freshResetToken(resets) ==
  CHOOSE token \in DOMAIN resets :
    /\ ~resets[token].present
    /\ \A other \in DOMAIN resets : ~resets[other].present => token <= other

\* a forgotPassword that sends no mail for a request made earlier
forgotPassword_SilentReuse(id, fault) ==
  LET creates == ~fault /\ id # 0 /\ ~hasOpenRequest(password_Resets, id, now)
      mailed == IF creates THEN freshResetToken(password_Resets) ELSE 0
  IN /\ creates => \E token \in ResetTokens : ~password_Resets[token].present
     /\ password_Resets' =
          IF creates
            THEN [password_Resets EXCEPT ![freshResetToken(password_Resets)] =
                    [present |-> TRUE, user_id |-> id,
                     expires_at |-> now + TOKEN_EXPIRY_MS, is_used |-> FALSE]]
            ELSE password_Resets
     /\ last' = [op |-> "forgotPassword", at |-> now,
                 code |-> IF fault THEN "INTERNAL_SERVER_ERROR" ELSE "OK",
                 status |-> IF fault THEN 500 ELSE 200,
                 tok |-> NoToken, out |-> NoPair, mail |-> mailed]
     /\ UNCHANGED <<now, users, twoFactorSettings, refresh_Tokens,
                    blacklisted_Tokens, issued>>
     /\ UNCHANGED <<backup_Codes, setups, probe>>
     /\ UNCHANGED mailVars
     /\ UNCHANGED routeVars
     /\ UNCHANGED flagVars
     /\ UNCHANGED ssoVars
     /\ UNCHANGED txVars
     /\ UNCHANGED rlVars

\* forgotPassword for the account an email belongs to (0: no account has it)
forgotPassword(id, fault) ==
  LET open == { token \in DOMAIN password_Resets :
                  /\ password_Resets[token].user_id = id
                  /\ findResetRequest(password_Resets, token, now) }
      creates == ~fault /\ id # 0 /\ ~hasOpenRequest(password_Resets, id, now)
      mailed == IF fault \/ id = 0 THEN {0}
                ELSE IF creates THEN {freshResetToken(password_Resets)}
                ELSE open
  IN /\ creates => \E token \in ResetTokens : ~password_Resets[token].present
     /\ password_Resets' =
          IF creates
            THEN [password_Resets EXCEPT ![freshResetToken(password_Resets)] =
                    [present |-> TRUE, user_id |-> id,
                     expires_at |-> now + TOKEN_EXPIRY_MS, is_used |-> FALSE]]
            ELSE password_Resets
     /\ \E token \in mailed :
          last' = [op |-> "forgotPassword", at |-> now,
                   code |-> IF fault THEN "INTERNAL_SERVER_ERROR" ELSE "OK",
                   status |-> IF fault THEN 500 ELSE 200,
                   tok |-> NoToken, out |-> NoPair, mail |-> token]
     /\ UNCHANGED <<now, users, twoFactorSettings, refresh_Tokens,
                    blacklisted_Tokens, issued>>
     /\ UNCHANGED <<backup_Codes, setups, probe>>
     /\ UNCHANGED mailVars
     /\ UNCHANGED routeVars
     /\ UNCHANGED flagVars
     /\ UNCHANGED ssoVars
     /\ UNCHANGED txVars
     /\ UNCHANGED rlVars

ResetUser == 2

ForgotPassword == \E id \in {ResetUser, 0}, fault \in BOOLEAN : forgotPassword(id, fault)

ResetFaults == {"none", "find", "update", "mark", "blacklist"}

\* a transaction that keeps the writes made before the failing statement
resetTransaction_NoRollback(token, newPassword, fault, t, accounts, resets, blacklist) ==
  LET id == resets[token].user_id
      updated == [accounts EXCEPT ![id].password_hash = hashPassword(newPassword),
                                  ![id].password_changed_at = t]
      marked == [resets EXCEPT ![token].is_used = TRUE]
      listed == blacklist \o << blacklistRow(id, WILDCARD, "access", t),
                                blacklistRow(id, WILDCARD, "refresh", t) >>
      failed(a, r, b) == [code |-> "INTERNAL_SERVER_ERROR",
                          users |-> a, resets |-> r, blacklist |-> b]
  IN IF fault = "find" THEN failed(accounts, resets, blacklist)
     ELSE IF ~findResetRequest(resets, token, t)
       THEN [code |-> "INVALID_RESET_TOKEN",
             users |-> accounts, resets |-> resets, blacklist |-> blacklist]
     ELSE IF fault = "update" THEN failed(accounts, resets, blacklist)
     ELSE IF fault = "mark" THEN failed(updated, resets, blacklist)
     ELSE IF fault = "blacklist" THEN failed(updated, marked, blacklist)
     ELSE [code |-> "OK", users |-> updated, resets |-> marked, blacklist |-> listed]

\* the body of resetPassword's transaction: its outcome and the tables as
\* the transaction leaves them; a statement that fails rolls all of it back
resetTransaction(token, newPassword, fault, t, accounts, resets, blacklist) ==
  LET unchanged(code) == [code |-> code, users |-> accounts,
                          resets |-> resets, blacklist |-> blacklist]
  IN IF fault = "find" THEN unchanged("INTERNAL_SERVER_ERROR")
     ELSE IF ~findResetRequest(resets, token, t) THEN unchanged("INVALID_RESET_TOKEN")
     ELSE IF fault # "none" THEN unchanged("INTERNAL_SERVER_ERROR")
     ELSE LET id == resets[token].user_id IN
       [code |-> "OK",
        users |-> [accounts EXCEPT ![id].password_hash = hashPassword(newPassword),
                                   ![id].password_changed_at = t],
        resets |-> [resets EXCEPT ![token].is_used = TRUE],
        blacklist |-> blacklist \o << blacklistRow(id, WILDCARD, "access", t),
                                      blacklistRow(id, WILDCARD, "refresh", t) >>]

resetStatus(code) ==
  CASE code = "OK" -> 200
    [] code = "INVALID_PASSWORD" -> 400
    [] code = "INVALID_RESET_TOKEN" -> 401
    [] OTHER -> 500

resetPassword(token, newPassword, fault) ==
  LET tx == resetTransaction(token, newPassword, fault, now,
                             users, password_Resets, blacklisted_Tokens)
      valid == validatePassword(newPassword)
      code == IF valid THEN tx.code ELSE "INVALID_PASSWORD"
  IN /\ users' = IF valid THEN tx.users ELSE users
     /\ password_Resets' = IF valid THEN tx.resets ELSE password_Resets
     /\ blacklisted_Tokens' = IF valid THEN tx.blacklist ELSE blacklisted_Tokens
     /\ last' = [op |-> "resetPassword", at |-> now, code |-> code,
                 status |-> resetStatus(code), tok |-> NoToken, out |-> NoPair]
     /\ UNCHANGED <<now, twoFactorSettings, refresh_Tokens, issued>>
     /\ UNCHANGED <<backup_Codes, setups, probe>>
     /\ UNCHANGED mailVars
     /\ UNCHANGED routeVars
     /\ UNCHANGED flagVars
     /\ UNCHANGED ssoVars
     /\ UNCHANGED txVars
     /\ UNCHANGED rlVars

ResetPassword ==
  \E token \in ResetTokens \cup {0}, newPassword \in NewPasswords,
     fault \in ResetFaults : resetPassword(token, newPassword, fault)

----------------------------------------------------------------------------
(* services/twoFactorService: enable2FA and verify2FA; utils/2fa *)

SetupIds == 1..MaxSetups
SetupUser == 2

\* authenticator.generateSecret(): a secret no call has drawn before
generate2FASecret(p) == 30 + p

\* generateBackupCodes(count = 8): 10-digit codes, drawn afresh by each call
generateBackupCodes(p) ==
  [i \in 1..BACKUP_CODE_COUNT |->
     [digits |-> BACKUP_CODE_DIGITS, val |-> p * 100 + i]]

\* createHash('sha256').update(code).digest('hex')
hashBackupCode(code) == [alg |-> "sha256", of |-> code]

\* a comparison of the code itself with the stored hash
verifyBackupCode_Cleartext(code, hashedCode) == code = hashedCode

verifyBackupCode(code, hashedCode) == hashBackupCode(code) = hashedCode

\* the rows createMany writes for a batch of codes
backupCodeRows(id, codes) ==
  { [id |-> i, user_id |-> id, code_hash |-> hashBackupCode(codes[i]),
     is_used |-> FALSE] : i \in DOMAIN codes }

\* an enable2FA that does not look at the enabled flag
enable2FAChecks_NoStateCheck(existingSettings, fault) ==
  IF fault THEN "INTERNAL_SERVER_ERROR" ELSE "PASS"

\* enable2FA up to the transaction: the error thrown, or "PASS"
enable2FAChecks(existingSettings, fault) ==
  IF fault THEN "INTERNAL_SERVER_ERROR"
  ELSE IF existingSettings.present /\ existingSettings.is_enabled
    THEN "TWO_FACTOR_ALREADY_ENABLED"
  ELSE "PASS"

\* a transaction that adds the new codes to the ones already stored
enable2FATransaction_KeepsOldCodes(id, secret, codes, settings, table) ==
  [settings |-> [settings EXCEPT ![id] =
                   [present |-> TRUE, secret |-> secret, is_enabled |-> FALSE,
                    enabled_at |-> settings[id].enabled_at]],
   table |-> table \cup backupCodeRows(id, codes)]

\* the transaction of enable2FA: upsert of the settings row, deleteMany of
\* the account's backup codes, createMany of the new ones
enable2FATransaction(id, secret, codes, settings, table) ==
  [settings |-> [settings EXCEPT ![id] =
                   [present |-> TRUE, secret |-> secret, is_enabled |-> FALSE,
                    enabled_at |-> settings[id].enabled_at]],
   table |-> {row \in table : row.user_id # id} \cup backupCodeRows(id, codes)]

\* a verify2FA that activates whatever code is presented
verify2FAChecks_AnyCode(settings, code, fault, t) ==
  IF fault THEN "INTERNAL_SERVER_ERROR"
  ELSE IF ~settings.present THEN "INVALID_STATE"
  ELSE IF settings.is_enabled THEN "TWO_FACTOR_ALREADY_ENABLED"
  ELSE "PASS"

\* verify2FA up to the update: the error thrown, or "PASS"
verify2FAChecks(settings, code, fault, t) ==
  IF fault THEN "INTERNAL_SERVER_ERROR"
  ELSE IF ~settings.present THEN "INVALID_STATE"
  ELSE IF settings.is_enabled THEN "TWO_FACTOR_ALREADY_ENABLED"
  ELSE IF ~verify2FAToken(settings.secret, code, t) THEN "INVALID_2FA_CODE"
  ELSE "PASS"

IdleSetup == [pc |-> "idle", op |-> "none", secret |-> 0, result |-> "none"]

\* enable2FA, up to the await of the transaction: the settings are read,
\* then the secret and the backup codes are drawn
Enable2FAStart(p, fault) ==
  /\ setups[p].pc = "idle"
  /\ \A q \in 1..(p - 1) : setups[q].pc # "idle"
  /\ LET checks == enable2FAChecks(twoFactorSettings[SetupUser], fault)
     IN setups' = [setups EXCEPT ![p] =
          IF checks = "PASS"
            THEN [IdleSetup EXCEPT !.pc = "generated", !.op = "enable2FA",
                                   !.secret = generate2FASecret(p)]
            ELSE [IdleSetup EXCEPT !.pc = "done", !.op = "enable2FA",
                                   !.result = checks]]
  /\ UNCHANGED <<now, password_Resets, backup_Codes, probe>>
  /\ UNCHANGED mailVars
  /\ UNCHANGED routeVars
  /\ UNCHANGED flagVars
  /\ UNCHANGED ssoVars
  /\ UNCHANGED txVars
  /\ UNCHANGED authVars
  /\ UNCHANGED rlVars

\* enable2FA's transaction commits, or fails and leaves the tables alone;
\* a call that returns "OK" hands out its secret and generateBackupCodes(p)
Enable2FACommit(p, fault) ==
  /\ setups[p].pc = "generated"
  /\ LET tx == enable2FATransaction(SetupUser, setups[p].secret, generateBackupCodes(p),
                                    twoFactorSettings, backup_Codes)
     IN /\ twoFactorSettings' = IF fault THEN twoFactorSettings ELSE tx.settings
        /\ backup_Codes' = IF fault THEN backup_Codes ELSE tx.table
        /\ setups' = [setups EXCEPT
                        ![p].pc = "done",
                        ![p].result = IF fault THEN "INTERNAL_SERVER_ERROR" ELSE "OK",
                        ![p].secret = IF fault THEN 0 ELSE setups[p].secret]
  /\ UNCHANGED <<now, users, refresh_Tokens, blacklisted_Tokens, issued, last>>
  /\ UNCHANGED <<password_Resets, probe>>
  /\ UNCHANGED mailVars
  /\ UNCHANGED routeVars
  /\ UNCHANGED flagVars
  /\ UNCHANGED ssoVars
  /\ UNCHANGED txVars
  /\ UNCHANGED rlVars

\* the codes a caller of verify2FA may present at time t
SetupCodesAt(t) ==
  {NoCode, [digits |-> 5, val |-> 12345]} \cup
  { totpCode(secret, totpCounter(t)) :
      secret \in {22} \cup {generate2FASecret(p) : p \in SetupIds} }

\* verify2FA, up to the await of the update: the settings are read and the
\* code is verified against the secret that was read
Verify2FAStart(p, code, fault) ==
  /\ setups[p].pc = "idle"
  /\ \A q \in 1..(p - 1) : setups[q].pc # "idle"
  /\ LET settings == twoFactorSettings[SetupUser]
         checks == verify2FAChecks(settings, code, fault, now)
     IN setups' = [setups EXCEPT ![p] =
          IF checks = "PASS"
            THEN [IdleSetup EXCEPT !.pc = "verified", !.op = "verify2FA",
                                   !.secret = settings.secret]
            ELSE [IdleSetup EXCEPT !.pc = "done", !.op = "verify2FA",
                                   !.result = checks]]
  /\ UNCHANGED <<now, password_Resets, backup_Codes, probe>>
  /\ UNCHANGED mailVars
  /\ UNCHANGED routeVars
  /\ UNCHANGED flagVars
  /\ UNCHANGED ssoVars
  /\ UNCHANGED txVars
  /\ UNCHANGED authVars
  /\ UNCHANGED rlVars

\* verify2FA's update({where: {user_id}, data: {is_enabled: true, enabled_at}})
Verify2FAUpdate(p, fault) ==
  /\ setups[p].pc = "verified"
  /\ twoFactorSettings' =
       IF fault THEN twoFactorSettings
       ELSE [twoFactorSettings EXCEPT ![SetupUser].is_enabled = TRUE,
                                      ![SetupUser].enabled_at = now]
  /\ setups' = [setups EXCEPT
                  ![p].pc = "done",
                  ![p].result = IF fault THEN "INTERNAL_SERVER_ERROR" ELSE "OK"]
  /\ UNCHANGED <<now, users, refresh_Tokens, blacklisted_Tokens, issued, last>>
  /\ UNCHANGED <<password_Resets, backup_Codes, probe>>
  /\ UNCHANGED mailVars
  /\ UNCHANGED routeVars
  /\ UNCHANGED flagVars
  /\ UNCHANGED ssoVars
  /\ UNCHANGED txVars
  /\ UNCHANGED rlVars

\* the cleartext codes of the batches that were handed out
HandedOutCodes ==
  { generateBackupCodes(p)[i] : p \in 0..MaxSetups, i \in 1..BACKUP_CODE_COUNT }

\* a login of the account under setup that presents a backup code as the
\* second factor
BackupCodeLogin ==
  \E code \in { c \in HandedOutCodes :
                  \E row \in backup_Codes : row.code_hash = hashBackupCode(c) } :
    login(users[SetupUser].username, Hunter2B, code, "none")

\* a caller applies verify2FAToken to a secret and a token; the token may be
\* the code of an earlier or later time step, or malformed
TokensAround(t) ==
  {NoCode, [digits |-> 5, val |-> 12345]} \cup
  { totpCode(secret, k) : secret \in {11, 22},
      k \in { c \in (totpCounter(t) - StepSlack)..(totpCounter(t) + StepSlack) : c >= 0 } }

NoProbe == [secret |-> 0, token |-> NoCode, at |-> -1, result |-> FALSE]

Verify2FATokenCall(secret, token) ==
  /\ probe' = [secret |-> secret, token |-> token, at |-> now,
               result |-> verify2FAToken(secret, token, now)]
  /\ UNCHANGED <<now, password_Resets, backup_Codes, setups>>
  /\ UNCHANGED mailVars
  /\ UNCHANGED routeVars
  /\ UNCHANGED flagVars
  /\ UNCHANGED ssoVars
  /\ UNCHANGED txVars
  /\ UNCHANGED authVars
  /\ UNCHANGED rlVars

----------------------------------------------------------------------------
(* services/userService: register, generateEmailVerificationToken;
   services/emailVerificationService: verifyEmail *)

\* a code or token, by its length in characters and the value it spells
NoEmailCode == [len |-> 0, val |-> 0]

\* crypto.randomBytes(n).toString('hex'): two characters for each byte;
\* draw numbers the draws, no two of which give the same bytes
randomHex(n, draw) == [len |-> 2 * n, val |-> draw]

verificationRow(userId, token, t) ==
  [user_id |-> userId, token |-> token, expires_at |-> t + TOKEN_EXPIRY_MS,
   is_used |-> FALSE]

\* an email address, by what the handlers ask of it: whether validateEmail
\* accepts it, and the account that has it (0: none)
Emails == {[valid |-> TRUE, owner |-> 0], [valid |-> TRUE, owner |-> 1],
           [valid |-> FALSE, owner |-> 0]}

nextUserId(table) == Cardinality(DOMAIN table) + 1

RegisterFaults == {"none", "transaction", "mail"}

\* the checks of register: the error thrown, or "PASS"
registerChecks(table, username, email, password, fault) ==
  IF ~validateUsername(username) THEN "INVALID_USERNAME"
  ELSE IF ~email.valid THEN "INVALID_EMAIL"
  ELSE IF ~validatePassword(password) THEN "INVALID_PASSWORD"
  ELSE IF fault = "transaction" THEN "INTERNAL_SERVER_ERROR"
  ELSE IF findUserByUsername(table, username) # 0 THEN "REG_USERNAME_EXISTS"
  ELSE IF email.owner # 0 THEN "REG_EMAIL_EXISTS"
  ELSE "PASS"

\* register: the transaction creates the account and its verification
\* record, the mail is sent after the commit
register(username, email, password, fault) ==
  LET checks == registerChecks(users, username, email, password, fault)
      id == nextUserId(users)
      token == randomHex(TOKEN_BYTE_LENGTH, Len(email_Verifications) + 1)
      result == IF checks # "PASS" THEN checks
                ELSE IF fault = "mail" THEN "INTERNAL_SERVER_ERROR" ELSE "OK"
  IN /\ checks = "PASS" => /\ Cardinality(DOMAIN users) < MaxAccounts
                           /\ Len(email_Verifications) < MaxVerifications
     /\ users' = IF checks = "PASS"
                   THEN users @@ (id :> [username |-> username,
                                         password_hash |-> hashPassword(password),
                                         password_changed_at |-> -1])
                   ELSE users
     /\ email_verified' = IF checks = "PASS"
                            THEN email_verified @@ (id :> FALSE)
                            ELSE email_verified
     /\ email_Verifications' =
          IF checks = "PASS"
            THEN Append(email_Verifications, verificationRow(id, token, now))
            ELSE email_Verifications
     /\ last' = [op |-> "register", at |-> now, code |-> result,
                 status |-> CASE result = "OK" -> 200
                              [] result = "INTERNAL_SERVER_ERROR" -> 500
                              [] OTHER -> 400,
                 tok |-> NoToken, out |-> NoPair,
                 mail |-> IF result = "OK" THEN token ELSE NoEmailCode]
     /\ UNCHANGED <<now, twoFactorSettings, refresh_Tokens, blacklisted_Tokens, issued>>
     /\ UNCHANGED rlVars
     /\ UNCHANGED acctVars
     /\ UNCHANGED routeVars
     /\ is_active' = IF checks = "PASS" THEN is_active @@ (id :> FALSE)
                                        ELSE is_active
     /\ UNCHANGED ssoVars
     /\ UNCHANGED txVars

Register ==
  \E username \in {Carol, Alice, Mallory}, email \in Emails,
     password \in {Secret1A, Short1a}, fault \in RegisterFaults :
    register(username, email, password, fault)

\* generateEmailVerificationToken for an account (0: an id no account has)
generateEmailVerificationToken(userId, fault) ==
  LET token == randomHex(TOKEN_BYTE_LENGTH, Len(email_Verifications) + 1)
      result == IF fault THEN "INTERNAL_SERVER_ERROR"
                ELSE IF userId \notin DOMAIN users THEN "USER_NOT_FOUND"
                ELSE "OK"
  IN /\ result = "OK" => Len(email_Verifications) < MaxVerifications
     /\ email_Verifications' =
          IF result = "OK"
            THEN Append(email_Verifications, verificationRow(userId, token, now))
            ELSE email_Verifications
     /\ last' = [op |-> "generateEmailVerificationToken", at |-> now,
                 code |-> result,
                 status |-> CASE result = "OK" -> 200
                              [] result = "USER_NOT_FOUND" -> 404
                              [] OTHER -> 500,
                 tok |-> NoToken, out |-> NoPair,
                 mail |-> IF result = "OK" THEN token ELSE NoEmailCode]
     /\ UNCHANGED <<now, users, twoFactorSettings, refresh_Tokens,
                    blacklisted_Tokens, issued, email_verified>>
     /\ UNCHANGED rlVars
     /\ UNCHANGED acctVars
     /\ UNCHANGED routeVars
     /\ UNCHANGED flagVars
     /\ UNCHANGED ssoVars
     /\ UNCHANGED txVars

GenerateEmailVerificationToken ==
  \E userId \in DOMAIN users \cup {0}, fault \in BOOLEAN :
    generateEmailVerificationToken(userId, fault)

\* the rows findFirst of verifyEmail can return
usableVerifications(table, userId, code, t) ==
  { i \in 1..Len(table) :
      /\ table[i].user_id = userId
      /\ table[i].token = code
      /\ ~table[i].is_used
      /\ table[i].expires_at > t }

VerifyFaults == {"none", "find", "mark", "update"}

\* a transaction that keeps the writes made before the failing statement
verifyEmailTransaction_NoRollback(userId, code, fault, t, verified, table) ==
  LET found == usableVerifications(table, userId, code, t)
      id == CHOOSE i \in found : \A j \in found : i <= j
      failed == [code |-> "INTERNAL_SERVER_ERROR", verified |-> verified, table |-> table]
  IN IF fault = "find" THEN failed
     ELSE IF verified[userId]
       THEN [code |-> "EMAIL_ALREADY_VERIFIED", verified |-> verified, table |-> table]
     ELSE IF found = {}
       THEN [code |-> "INVALID_CODE", verified |-> verified, table |-> table]
     ELSE IF fault = "mark" THEN failed
     ELSE IF fault = "update"
       THEN [failed EXCEPT !.table = [table EXCEPT ![id].is_used = TRUE]]
     ELSE [code |-> "OK",
           verified |-> [verified EXCEPT ![userId] = TRUE],
           table |-> [table EXCEPT ![id].is_used = TRUE]]

\* the transaction of verifyEmail: the error thrown or "OK", and the column
\* and the table as it leaves them. fault: the statement that throws
verifyEmailTransaction(userId, code, fault, t, verified, table) ==
  LET found == usableVerifications(table, userId, code, t)
      id == CHOOSE i \in found : \A j \in found : i <= j
      failed == [code |-> "INTERNAL_SERVER_ERROR", verified |-> verified, table |-> table]
  IN IF fault = "find" THEN failed
     ELSE IF verified[userId]
       THEN [code |-> "EMAIL_ALREADY_VERIFIED", verified |-> verified, table |-> table]
     ELSE IF found = {}
       THEN [code |-> "INVALID_CODE", verified |-> verified, table |-> table]
     ELSE IF fault \in {"mark", "update"} THEN failed
     ELSE [code |-> "OK",
           verified |-> [verified EXCEPT ![userId] = TRUE],
           table |-> [table EXCEPT ![id].is_used = TRUE]]

verifyEmail(userId, code, fault) ==
  LET wellFormed == code # NoEmailCode /\ code.len = CODE_LENGTH
      tx == IF wellFormed
              THEN verifyEmailTransaction(userId, code, fault, now, email_verified,
                                          email_Verifications)
              ELSE [code |-> "INVALID_CODE", verified |-> email_verified,
                    table |-> email_Verifications]
  IN /\ email_verified' = tx.verified
     /\ email_Verifications' = tx.table
     /\ last' = [op |-> "verifyEmail", at |-> now, code |-> tx.code,
                 status |-> CASE tx.code = "OK" -> 200
                              [] tx.code = "INTERNAL_SERVER_ERROR" -> 500
                              [] OTHER -> 400,
                 tok |-> NoToken, out |-> NoPair, user |-> userId, given |-> code]
     /\ UNCHANGED <<now, users, twoFactorSettings, refresh_Tokens,
                    blacklisted_Tokens, issued>>
     /\ UNCHANGED rlVars
     /\ UNCHANGED acctVars
     /\ UNCHANGED routeVars
     /\ UNCHANGED flagVars
     /\ UNCHANGED ssoVars
     /\ UNCHANGED txVars

\* the codes a caller may present: none, the tokens of the table, and codes
\* of five and of six characters
EmailCodes ==
  {NoEmailCode, [len |-> 5, val |-> 1], [len |-> CODE_LENGTH, val |-> 1]}
    \cup { email_Verifications[i].token : i \in 1..Len(email_Verifications) }

VerifyEmail ==
  \E userId \in DOMAIN users, code \in EmailCodes, fault \in VerifyFaults :
    verifyEmail(userId, code, fault)

----------------------------------------------------------------------------
(* services/userService: changePassword *)

changePasswordChecks(table, userId, old_password, new_password, fault) ==
  IF ~validatePassword(new_password) THEN "INVALID_PASSWORD"
  ELSE IF fault THEN "INTERNAL_SERVER_ERROR"
  ELSE IF userId \notin DOMAIN table THEN "USER_NOT_FOUND"
  ELSE IF ~comparePassword(old_password, table[userId].password_hash)
    THEN "INCORRECT_PASSWORD"
  ELSE "OK"

changePassword(userId, old_password, new_password, fault) ==
  LET result == changePasswordChecks(users, userId, old_password, new_password, fault)
  IN /\ users' = IF result = "OK"
                   THEN [users EXCEPT ![userId].password_hash = hashPassword(new_password),
                                      ![userId].password_changed_at = now]
                   ELSE users
     /\ last' = [op |-> "changePassword", at |-> now, code |-> result,
                 status |-> CASE result = "OK" -> 200
                              [] result = "INVALID_PASSWORD" -> 400
                              [] result = "USER_NOT_FOUND" -> 404
                              [] result = "INCORRECT_PASSWORD" -> 401
                              [] OTHER -> 500,
                 tok |-> NoToken, out |-> NoPair]
     /\ UNCHANGED <<now, twoFactorSettings, refresh_Tokens, blacklisted_Tokens, issued>>
     /\ UNCHANGED rlVars
     /\ UNCHANGED acctVars
     /\ UNCHANGED mailVars
     /\ UNCHANGED routeVars
     /\ UNCHANGED flagVars
     /\ UNCHANGED ssoVars
     /\ UNCHANGED txVars

----------------------------------------------------------------------------
(* middleware/rateLimit: the limiters of the routes;
   app/api/v1: the route handlers that consult them *)

\* new RateLimiter({windowMs, max, keyPrefix}) of each route
Limiters ==
  [register |-> [windowMs |-> 60000, max |-> 10, keyPrefix |-> "rl:register:"],
   forgotPassword |-> [windowMs |-> 3600000, max |-> 3,
                       keyPrefix |-> "rl:forgot-password:"],
   resetPassword |-> [windowMs |-> 3600000, max |-> 5,
                      keyPrefix |-> "rl:reset-password:"],
   login |-> [windowMs |-> 900000, max |-> 5, keyPrefix |-> "rl:login:"],
   changePassword |-> [windowMs |-> 3600000, max |-> 5, keyPrefix |-> "rl:password:"],
   sendVerification |-> [windowMs |-> 86400000, max |-> 3,
                         keyPrefix |-> "rl:email-verify:"]]

Routes == DOMAIN Limiters

\* the caller of the routes: one address, one account
RouteIp == "10.0.0.1"
RouteUser == 2

\* the key each route's limiter counts under, for the custom key the route
\* hands to check: `${ip}-${username}` (login), the email, the reset token,
\* nothing (register: the address), userId.toString()
routeKey(r) ==
  CASE r = "login" -> <<Limiters[r].keyPrefix, RouteIp, "10.0.0.1-bob">>
    [] r = "forgotPassword" -> <<Limiters[r].keyPrefix, "bob@example.com">>
    [] r = "resetPassword" -> <<Limiters[r].keyPrefix, "token-1">>
    [] r = "register" -> <<Limiters[r].keyPrefix, RouteIp>>
    [] OTHER -> <<Limiters[r].keyPrefix, "2">>

RouteKeys == {routeKey(r) : r \in Routes}

\* check of a limiter on the entry of its key: the result and the entry left
limiterCheck(limiter, entry, storeFails, t) ==
  IF storeFails
    THEN [result |-> [success |-> TRUE, current |-> 0, remaining |-> limiter.max],
          entry |-> entry]
    ELSE LET reply == luaScript(entry, (limiter.windowMs + 999) \div 1000, t)
         IN [result |-> [success |-> reply.current <= limiter.max,
                         current |-> reply.current,
                         remaining |-> IF limiter.max - reply.current > 0
                                         THEN limiter.max - reply.current ELSE 0],
             entry |-> reply.entry]

\* the response a route returns
routeResponse(r, code, status, result) ==
  [op |-> "route", route |-> r, at |-> now, code |-> code, status |-> status,
   tok |-> NoToken, out |-> NoPair, result |-> result]

RouteFaults == {"none", "store", "body"}

\* the route a response came from
endpointOf(response) ==
  CASE response.op \in {"route", "passed"} -> response.route
    [] response.op = "generateEmailVerificationToken" -> "sendVerification"
    [] OTHER -> response.op

\* a route that goes on to the service whatever check returned
RouteCheck_NoReturn(r, fault) ==
  LET key == routeKey(r)
      chk == limiterCheck(Limiters[r], entryAt(redis, key, now), fault = "store", now)
  IN /\ last.op \notin {"passed", "login"}
     /\ last.op = "none" \/ endpointOf(last) = r
     /\ entryAt(redis, key, now).n < Limiters[r].max + MaxOver
     /\ redis' = [redis EXCEPT ![key] = chk.entry]
     /\ failedLogins' = IF r = "login" /\ chk.result.current = 1 THEN 0 ELSE failedLogins
     /\ last' = [op |-> "passed", route |-> r, at |-> now, code |-> "OK",
                 status |-> 0, tok |-> NoToken, out |-> NoPair,
                 result |-> chk.result]
     /\ UNCHANGED <<now, users, twoFactorSettings, refresh_Tokens,
                    blacklisted_Tokens, issued, calls>>
     /\ UNCHANGED acctVars
     /\ UNCHANGED mailVars
     /\ UNCHANGED flagVars
     /\ UNCHANGED ssoVars
     /\ UNCHANGED txVars

\* a route up to the call of its service: the body is read (before check in
\* login, forgot-password and reset-password, after it in register and
\* password change; "body" for the verification mail: no bearer token), the
\* limiter is consulted and a request over the limit is answered. One
\* request is handled at a time, and a behaviour exercises one endpoint
RouteCheck(r, fault) ==
  LET key == routeKey(r)
      early == fault = "body"
                 /\ r \in {"login", "forgotPassword", "resetPassword", "sendVerification"}
      chk == limiterCheck(Limiters[r], entryAt(redis, key, now), fault = "store", now)
  IN /\ last.op \notin {"passed", "login"}
     /\ last.op = "none" \/ endpointOf(last) = r
     /\ entryAt(redis, key, now).n < Limiters[r].max + MaxOver
     /\ redis' = IF early THEN redis ELSE [redis EXCEPT ![key] = chk.entry]
     /\ failedLogins' = IF ~early /\ r = "login" /\ chk.result.current = 1 THEN 0 ELSE failedLogins
     /\ last' = IF early
                  THEN IF r = "sendVerification"
                         THEN routeResponse(r, "INVALID_TOKEN", 401, NoResult)
                         ELSE routeResponse(r, "INTERNAL_SERVER_ERROR", 500, NoResult)
                ELSE IF ~chk.result.success
                  THEN routeResponse(r, "RATE_LIMIT_EXCEEDED", 429, chk.result)
                ELSE IF fault = "body"
                  THEN routeResponse(r, "INTERNAL_SERVER_ERROR", 500, chk.result)
                ELSE [op |-> "passed", route |-> r, at |-> now, code |-> "OK",
                      status |-> 0, tok |-> NoToken, out |-> NoPair,
                      result |-> chk.result]
     /\ UNCHANGED <<now, users, twoFactorSettings, refresh_Tokens,
                    blacklisted_Tokens, issued, calls>>
     /\ UNCHANGED acctVars
     /\ UNCHANGED mailVars
     /\ UNCHANGED flagVars
     /\ UNCHANGED ssoVars
     /\ UNCHANGED txVars

passed(r) == last.op = "passed" /\ last.route = r

\* the service calls of the routes, for the request that passed
ServeLogin ==
  /\ passed("login")
  /\ \E password \in Passwords : login(users[RouteUser].username, password, NoCode, "none")

ServeForgotPassword ==
  /\ passed("forgotPassword")
  /\ \E fault \in BOOLEAN : forgotPassword(RouteUser, fault)

ServeResetPassword ==
  /\ passed("resetPassword")
  /\ \E newPassword \in NewPasswords : resetPassword(1, newPassword, "none")

ServeRegister ==
  /\ passed("register")
  /\ \E password \in {Secret1A, Short1a} :
       register(Carol, [valid |-> TRUE, owner |-> 0], password, "none")

ServeChangePassword ==
  /\ passed("changePassword")
  /\ \E old_password \in Passwords, fault \in BOOLEAN :
       changePassword(RouteUser, old_password, Secret1A, fault)

\* the verification mail: getUserEmailStatus, then the token and the mail
ServeSendVerification ==
  /\ passed("sendVerification")
  /\ IF email_verified[RouteUser]
       THEN /\ last' = routeResponse("sendVerification", "EMAIL_ALREADY_VERIFIED", 400,
                                     last.result)
            /\ UNCHANGED <<now, users, twoFactorSettings, refresh_Tokens,
                           blacklisted_Tokens, issued>>
            /\ UNCHANGED rlVars
            /\ UNCHANGED acctVars
            /\ UNCHANGED mailVars
            /\ UNCHANGED routeVars
            /\ UNCHANGED flagVars
            /\ UNCHANGED ssoVars
            /\ UNCHANGED txVars
       ELSE \E fault \in BOOLEAN : generateEmailVerificationToken(RouteUser, fault)

\* the login route after login returned or threw: an INVALID_CREDENTIALS
\* error is recorded by a second check before the response goes out
LoginReturn ==
  LET key == routeKey("login")
      records == last.code = "INVALID_CREDENTIALS"
      chk == limiterCheck(Limiters.login, entryAt(redis, key, now), FALSE, now)
  IN /\ last.op = "login"
     /\ redis' = IF records THEN [redis EXCEPT ![key] = chk.entry] ELSE redis
     /\ failedLogins' = IF ~records THEN failedLogins
                  ELSE IF chk.result.current = 1 THEN 1
                  ELSE failedLogins + 1
     /\ last' = routeResponse("login", last.code, last.status, NoResult)
     /\ UNCHANGED <<now, users, twoFactorSettings, refresh_Tokens,
                    blacklisted_Tokens, issued, calls>>
     /\ UNCHANGED acctVars
     /\ UNCHANGED mailVars
     /\ UNCHANGED flagVars
     /\ UNCHANGED ssoVars
     /\ UNCHANGED txVars

----------------------------------------------------------------------------
(* services/passwordService: resetPassword and forgotPassword, statement by
   statement.  Each call runs in a transaction of its own; the store gives a
   statement the rows committed when it runs (READ COMMITTED, the default of
   the PostgreSQL datasource), so between the findFirst of one call and its
   writes another call can run. *)

TxIds == 1..MaxTxs

IdleTx == [op |-> "none", pc |-> "idle", token |-> 0, user |-> 0,
           newPassword |-> << >>, result |-> "none"]

txResponse(op, code) ==
  [op |-> op, at |-> now, code |-> code, status |-> resetStatus(code),
   tok |-> NoToken, out |-> NoPair]

\* resetPassword up to its findFirst: the password is validated, the
\* transaction begins and looks for the unused, unexpired request
ResetPasswordFind(p, token, newPassword) ==
  LET code == IF ~validatePassword(newPassword) THEN "INVALID_PASSWORD"
              ELSE IF ~findResetRequest(password_Resets, token, now)
                THEN "INVALID_RESET_TOKEN"
              ELSE "PASS"
  IN /\ txs[p].pc = "idle"
     /\ txs' = [txs EXCEPT ![p] =
                  [op |-> "resetPassword",
                   pc |-> IF code = "PASS" THEN "found" ELSE "done",
                   token |-> token,
                   user |-> IF code = "PASS" THEN password_Resets[token].user_id ELSE 0,
                   newPassword |-> newPassword,
                   result |-> IF code = "PASS" THEN "none" ELSE code]]
     /\ last' = IF code = "PASS" THEN last ELSE txResponse("resetPassword", code)
     /\ UNCHANGED <<now, users, twoFactorSettings, refresh_Tokens,
                    blacklisted_Tokens, issued>>
     /\ UNCHANGED rlVars
     /\ UNCHANGED acctVars
     /\ UNCHANGED mailVars
     /\ UNCHANGED routeVars
     /\ UNCHANGED flagVars
     /\ UNCHANGED ssoVars

\* resetPassword from the request it found to the commit: the password is
\* updated, the request marked used and the two wildcard rows inserted, by
\* the ids read before; a statement that fails rolls all of it back
ResetPasswordWrite(p, fault) ==
  LET id == txs[p].user
      token == txs[p].token
      code == IF fault THEN "INTERNAL_SERVER_ERROR" ELSE "OK"
  IN /\ txs[p].op = "resetPassword"
     /\ txs[p].pc = "found"
     /\ users' = IF code # "OK" THEN users
                 ELSE [users EXCEPT ![id].password_hash = hashPassword(txs[p].newPassword),
                                    ![id].password_changed_at = now]
     /\ password_Resets' = IF code # "OK" THEN password_Resets
                           ELSE [password_Resets EXCEPT ![token].is_used = TRUE]
     /\ blacklisted_Tokens' =
          IF code # "OK" THEN blacklisted_Tokens
          ELSE blacklisted_Tokens \o << blacklistRow(id, WILDCARD, "access", now),
                                        blacklistRow(id, WILDCARD, "refresh", now) >>
     /\ txs' = [txs EXCEPT ![p].pc = "done", ![p].result = code]
     /\ last' = txResponse("resetPassword", code)
     /\ UNCHANGED <<now, twoFactorSettings, refresh_Tokens, issued>>
     /\ UNCHANGED <<backup_Codes, setups, probe>>
     /\ UNCHANGED rlVars
     /\ UNCHANGED mailVars
     /\ UNCHANGED routeVars
     /\ UNCHANGED flagVars
     /\ UNCHANGED ssoVars

\* forgotPassword up to its findFirst, for the account the address belongs
\* to (0: none): without an account the call returns, an open request is
\* mailed again, otherwise the call goes on to create one
ForgotPasswordFind(p, id, fault) ==
  LET open == { token \in DOMAIN password_Resets :
                  /\ password_Resets[token].user_id = id
                  /\ findResetRequest(password_Resets, token, now) }
      creates == ~fault /\ id # 0 /\ open = {}
      code == IF fault THEN "INTERNAL_SERVER_ERROR" ELSE "OK"
      mailed == IF fault \/ id = 0 THEN {0} ELSE open
  IN /\ txs[p].pc = "idle"
     /\ txs' = [txs EXCEPT ![p] =
                  [op |-> "forgotPassword",
                   pc |-> IF creates THEN "creating" ELSE "done",
                   token |-> 0, user |-> id, newPassword |-> << >>,
                   result |-> IF creates THEN "none" ELSE code]]
     /\ IF creates
          THEN last' = last
          ELSE \E token \in mailed :
                 last' = [op |-> "forgotPassword", at |-> now, code |-> code,
                          status |-> IF fault THEN 500 ELSE 200,
                          tok |-> NoToken, out |-> NoPair, mail |-> token]
     /\ UNCHANGED <<now, users, twoFactorSettings, refresh_Tokens,
                    blacklisted_Tokens, issued>>
     /\ UNCHANGED rlVars
     /\ UNCHANGED acctVars
     /\ UNCHANGED mailVars
     /\ UNCHANGED routeVars
     /\ UNCHANGED flagVars
     /\ UNCHANGED ssoVars

\* forgotPassword from the token it draws to the commit: the request is
\* created and mailed; a statement or a mail that fails rolls it back
ForgotPasswordCreate(p, fault) ==
  LET token == freshResetToken(password_Resets)
      code == IF fault THEN "INTERNAL_SERVER_ERROR" ELSE "OK"
  IN /\ txs[p].op = "forgotPassword"
     /\ txs[p].pc = "creating"
     /\ \E free \in DOMAIN password_Resets : ~password_Resets[free].present
     /\ password_Resets' =
          IF fault THEN password_Resets
          ELSE [password_Resets EXCEPT ![token] =
                  [present |-> TRUE, user_id |-> txs[p].user,
                   expires_at |-> now + TOKEN_EXPIRY_MS, is_used |-> FALSE]]
     /\ txs' = [txs EXCEPT ![p].pc = "done", ![p].result = code,
                           ![p].token = IF fault THEN 0 ELSE token]
     /\ last' = [op |-> "forgotPassword", at |-> now, code |-> code,
                 status |-> IF fault THEN 500 ELSE 200,
                 tok |-> NoToken, out |-> NoPair,
                 mail |-> IF fault THEN 0 ELSE token]
     /\ UNCHANGED <<now, users, twoFactorSettings, refresh_Tokens,
                    blacklisted_Tokens, issued>>
     /\ UNCHANGED <<backup_Codes, setups, probe>>
     /\ UNCHANGED rlVars
     /\ UNCHANGED mailVars
     /\ UNCHANGED routeVars
     /\ UNCHANGED flagVars
     /\ UNCHANGED ssoVars

----------------------------------------------------------------------------
(* services/ssoService: getSSOAuthorizationUrl, handleSSOCallback *)

SUPPORTED_PROVIDERS == {"google", "github"}

\* provider.toLowerCase() on the names callers use
toLowerCase(provider) ==
  CASE provider = "Google" -> "google"
    [] provider = "GitHub" -> "github"
    [] OTHER -> provider

Providers == {"Google", "github", "facebook"}

States == 1..MaxStates
NoState == [present |-> FALSE, provider |-> "none", createdAt |-> 0]

\* uuidv4(): a value that no earlier call returned
freshState(history) == Len(history) + 1

\* what the identity provider says of the caller: its id, the address (by
\* the account that has it, 0: none, and the part before the @), and the
\* names generateUsername reads
UserInfos ==
  {[id |-> 71, email |-> [owner |-> 1, local |-> <<"a","l">>],
    login |-> <<>>, name |-> <<"A","l"," ","I","c","e">>],
   [id |-> 72, email |-> [owner |-> 0, local |-> <<"c",".","k">>],
    login |-> Carol, name |-> <<>>],
   [id |-> 73, email |-> [owner |-> 0, local |-> <<"b",".","o","b">>],
    login |-> <<>>, name |-> <<>>]}

\* String.prototype.toLowerCase on one character
lowerChar(c) ==
  CASE c = "A" -> "a" [] c = "B" -> "b" [] c = "C" -> "c" [] c = "I" -> "i"
    [] OTHER -> c

\* generateUsername: the login, or the name without blanks in lower case,
\* or the address up to the @; only word characters are kept, and a name
\* shorter than 3 gets the first 8 characters of a uuid appended
generateUsername(userInfo) ==
  LET noBlanks == SelectSeq(userInfo.name, LAMBDA c : c # " ")
      raw == IF userInfo.login # <<>> THEN userInfo.login
             ELSE IF userInfo.name # <<>>
               THEN [i \in 1..Len(noBlanks) |-> lowerChar(noBlanks[i])]
             ELSE userInfo.email.local
      clean == SelectSeq(raw, LAMBDA c : c \in WordChars)
  IN IF Len(clean) < 3
       THEN clean \o <<"9","f","8","6","d","0","8","1">>
       ELSE clean

getSSOAuthorizationUrl(provider) ==
  LET supported == toLowerCase(provider) \in SUPPORTED_PROVIDERS
      state == freshState(ssoStates)
      entry == [present |-> TRUE, provider |-> toLowerCase(provider),
                createdAt |-> now]
  IN /\ supported => state <= MaxStates
     /\ stateCache' = IF supported THEN [stateCache EXCEPT ![state] = entry]
                                   ELSE stateCache
     /\ ssoStates' = IF supported
                       THEN Append(ssoStates, [provider |-> entry.provider,
                                               createdAt |-> now, accepted |-> 0])
                       ELSE ssoStates
     /\ last' = [op |-> "getSSOAuthorizationUrl", at |-> now,
                 code |-> IF supported THEN "OK" ELSE "INVALID_PROVIDER",
                 status |-> IF supported THEN 200 ELSE 400,
                 tok |-> NoToken, out |-> NoPair,
                 state |-> IF supported THEN state ELSE 0]
     /\ UNCHANGED <<now, users, twoFactorSettings, refresh_Tokens,
                    blacklisted_Tokens, issued, login_Methods>>
     /\ UNCHANGED rlVars
     /\ UNCHANGED acctVars
     /\ UNCHANGED mailVars
     /\ UNCHANGED routeVars
     /\ UNCHANGED txVars
     /\ UNCHANGED flagVars

GetSSOAuthorizationUrl == \E provider \in Providers : getSSOAuthorizationUrl(provider)

\* the state validation of handleSSOCallback: the error thrown, or "PASS"
stateChecks(cache, provider, state, t) ==
  IF toLowerCase(provider) \notin SUPPORTED_PROVIDERS THEN "INVALID_PROVIDER"
  ELSE IF \/ state \notin DOMAIN cache
          \/ ~cache[state].present
          \/ cache[state].provider # toLowerCase(provider)
          \/ t - cache[state].createdAt > STATE_TOKEN_EXPIRY
    THEN "INVALID_SSO_CODE"
  ELSE "PASS"

\* where the work after the state validation can throw
SSOFaults == {"none", "exchange", "userinfo", "find", "create", "method", "persist"}

\* a callback that removes the state only after the tokens were made
handleSSOCallback_DeleteLate(provider, code, state, userInfo, fault) ==
  LET checks == stateChecks(stateCache, provider, state, now)
      found == userInfo.email.owner
      username == generateUsername(userInfo)
      exchanged == fault # "exchange" /\ code = "granted"
      looked == exchanged /\ fault \notin {"userinfo", "find"}
      id == IF found # 0 THEN found ELSE nextUserId(users)
      creates == /\ checks = "PASS" /\ looked /\ found = 0
                 /\ fault # "create"
                 /\ findUserByUsername(users, username) = 0
      records == /\ checks = "PASS" /\ looked /\ fault # "method"
                 /\ (found # 0 \/ creates)
      gen == generateTokens(id, now, issued, refresh_Tokens, fault = "persist")
      done == records /\ ~gen.threw
      result == IF checks # "PASS" THEN checks
                ELSE IF done THEN "OK" ELSE "SSO_ERROR"
      old == {m \in login_Methods : m.user_id = id /\ m.provider = toLowerCase(provider)}
  IN /\ creates => Cardinality(DOMAIN users) < MaxAccounts
     /\ done => Cardinality(issued) < MaxTokens
     /\ stateCache' = IF done THEN [stateCache EXCEPT ![state] = NoState]
                              ELSE stateCache
     /\ ssoStates' = IF checks = "PASS"
                       THEN [ssoStates EXCEPT ![state].accepted = @ + 1]
                       ELSE ssoStates
     /\ users' = IF creates
                   THEN users @@ (id :> [username |-> username,
                                         password_hash |-> hashPassword(<<"uuid">>),
                                         password_changed_at |-> -1])
                   ELSE users
     /\ email_verified' = IF creates THEN email_verified @@ (id :> TRUE)
                                     ELSE email_verified
     /\ is_active' = IF creates THEN is_active @@ (id :> TRUE) ELSE is_active
     /\ login_Methods' =
          IF records
            THEN (login_Methods \ old)
                   \cup {[user_id |-> id, provider |-> toLowerCase(provider),
                          provider_user_id |-> userInfo.id]}
            ELSE login_Methods
     /\ refresh_Tokens' = IF records THEN gen.table ELSE refresh_Tokens
     /\ issued' = IF done THEN issued \cup {gen.tokens} ELSE issued
     /\ last' = [op |-> "handleSSOCallback", at |-> now, code |-> result,
                 status |-> IF result = "OK" THEN 200 ELSE 400,
                 tok |-> NoToken,
                 out |-> IF done THEN gen.tokens ELSE NoPair,
                 provider |-> provider, state |-> state]
     /\ UNCHANGED <<now, twoFactorSettings, blacklisted_Tokens, email_Verifications>>
     /\ UNCHANGED rlVars
     /\ UNCHANGED acctVars
     /\ UNCHANGED routeVars
     /\ UNCHANGED txVars

\* handleSSOCallback: provider and state are validated, the state is
\* removed, then the code is exchanged, the account found or created, the
\* login method recorded and the tokens generated; whatever throws after
\* the validation is answered SSO_ERROR, and what was written before stays
handleSSOCallback(provider, code, state, userInfo, fault) ==
  LET checks == stateChecks(stateCache, provider, state, now)
      found == userInfo.email.owner
      username == generateUsername(userInfo)
      exchanged == fault # "exchange" /\ code = "granted"
      looked == exchanged /\ fault \notin {"userinfo", "find"}
      id == IF found # 0 THEN found ELSE nextUserId(users)
      creates == /\ checks = "PASS" /\ looked /\ found = 0
                 /\ fault # "create"
                 /\ findUserByUsername(users, username) = 0
      records == /\ checks = "PASS" /\ looked /\ fault # "method"
                 /\ (found # 0 \/ creates)
      gen == generateTokens(id, now, issued, refresh_Tokens, fault = "persist")
      done == records /\ ~gen.threw
      result == IF checks # "PASS" THEN checks
                ELSE IF done THEN "OK" ELSE "SSO_ERROR"
      old == {m \in login_Methods : m.user_id = id /\ m.provider = toLowerCase(provider)}
  IN /\ creates => Cardinality(DOMAIN users) < MaxAccounts
     /\ done => Cardinality(issued) < MaxTokens
     /\ stateCache' = IF checks = "PASS" THEN [stateCache EXCEPT ![state] = NoState]
                                         ELSE stateCache
     /\ ssoStates' = IF checks = "PASS"
                       THEN [ssoStates EXCEPT ![state].accepted = @ + 1]
                       ELSE ssoStates
     /\ users' = IF creates
                   THEN users @@ (id :> [username |-> username,
                                         password_hash |-> hashPassword(<<"uuid">>),
                                         password_changed_at |-> -1])
                   ELSE users
     /\ email_verified' = IF creates THEN email_verified @@ (id :> TRUE)
                                     ELSE email_verified
     /\ is_active' = IF creates THEN is_active @@ (id :> TRUE) ELSE is_active
     /\ login_Methods' =
          IF records
            THEN (login_Methods \ old)
                   \cup {[user_id |-> id, provider |-> toLowerCase(provider),
                          provider_user_id |-> userInfo.id]}
            ELSE login_Methods
     /\ refresh_Tokens' = IF records THEN gen.table ELSE refresh_Tokens
     /\ issued' = IF done THEN issued \cup {gen.tokens} ELSE issued
     /\ last' = [op |-> "handleSSOCallback", at |-> now, code |-> result,
                 status |-> IF result = "OK" THEN 200 ELSE 400,
                 tok |-> NoToken,
                 out |-> IF done THEN gen.tokens ELSE NoPair,
                 provider |-> provider, state |-> state]
     /\ UNCHANGED <<now, twoFactorSettings, blacklisted_Tokens, email_Verifications>>
     /\ UNCHANGED rlVars
     /\ UNCHANGED acctVars
     /\ UNCHANGED routeVars
     /\ UNCHANGED txVars

\* callbacks with every provider and state; a callback that is turned away
\* reads neither the code nor the provider's answer, and something throws
\* only in callbacks whose code the provider granted
HandleSSOCallback ==
  \E provider \in Providers, state \in 0..MaxStates :
    IF stateChecks(stateCache, provider, state, now) # "PASS"
      THEN \E userInfo \in {u \in UserInfos : u.id = 71} :
             handleSSOCallback(provider, "granted", state, userInfo, "none")
      ELSE \E userInfo \in UserInfos,
              attempt \in ({"granted"} \X SSOFaults) \cup {<<"denied", "none">>} :
             handleSSOCallback(provider, attempt[1], state, userInfo, attempt[2])

\* the setInterval callback: entries older than STATE_TOKEN_EXPIRY go
sweep ==
  /\ stateCache' = [s \in DOMAIN stateCache |->
                      IF /\ stateCache[s].present
                         /\ now - stateCache[s].createdAt > STATE_TOKEN_EXPIRY
                        THEN NoState ELSE stateCache[s]]
  /\ stateCache' # stateCache
  /\ UNCHANGED <<now, login_Methods, ssoStates>>
  /\ UNCHANGED authVars
  /\ UNCHANGED rlVars
  /\ UNCHANGED acctVars
  /\ UNCHANGED mailVars
  /\ UNCHANGED routeVars
  /\ UNCHANGED txVars
  /\ UNCHANGED flagVars

\* the clock moves on by the lifetime of a state, then by milliseconds
TickSSO ==
  /\ now < STATE_TOKEN_EXPIRY + MaxLate
  /\ now' = IF now < STATE_TOKEN_EXPIRY THEN now + STATE_TOKEN_EXPIRY ELSE now + 1
  /\ UNCHANGED authVars
  /\ UNCHANGED rlVars
  /\ UNCHANGED acctVars
  /\ UNCHANGED mailVars
  /\ UNCHANGED routeVars
  /\ UNCHANGED flagVars
  /\ UNCHANGED ssoVars
  /\ UNCHANGED txVars

----------------------------------------------------------------------------

NoCall == [op |-> "none", at |-> 0, code |-> "OK", status |-> 0,
           tok |-> NoToken, out |-> NoPair]

InitAuth ==
  /\ users = [id \in UserIds |->
       IF id = 1 THEN [username |-> Alice, password_hash |-> hashPassword(Secret1A),
                       password_changed_at |-> -1]
                 ELSE [username |-> Bob, password_hash |-> hashPassword(Hunter2B),
                       password_changed_at |-> -1]]
  /\ twoFactorSettings \in
       { [id \in UserIds |-> IF id = 1 THEN [present |-> TRUE, secret |-> 11, is_enabled |-> TRUE,
                                    enabled_at |-> 0]
                             ELSE s] :
           s \in {NoSettings, [present |-> TRUE, secret |-> 22, is_enabled |-> FALSE,
                            enabled_at |-> -1]} }
  /\ refresh_Tokens = {}
  /\ blacklisted_Tokens = <<>>
  /\ issued = {}
  /\ last = NoCall

InitRL ==
  /\ redis = [k \in Keys |-> NoEntry]
  /\ calls = [c \in CallIds |-> Idle]

\* an account whose setup was begun has the backup codes of that setup
InitAcct ==
  /\ password_Resets = [token \in ResetTokens |-> NoReset]
  /\ backup_Codes = IF twoFactorSettings[SetupUser].present
                      THEN backupCodeRows(SetupUser, generateBackupCodes(0))
                      ELSE {}
  /\ setups = [p \in SetupIds |-> IdleSetup]
  /\ probe = NoProbe

InitMail ==
  /\ email_verified = [id \in UserIds |-> FALSE]
  /\ email_Verifications = << >>
  /\ failedLogins = 0

InitSSO ==
  /\ is_active = [id \in UserIds |-> TRUE]
  /\ stateCache = [s \in States |-> NoState]
  /\ login_Methods = {}
  /\ ssoStates = << >>
  /\ txs = [p \in TxIds |-> IdleTx]

Init == now = 0 /\ InitAuth /\ InitRL /\ InitAcct /\ InitMail /\ InitSSO

\* the calls of SpecTx start from a database in which the account may have
\* asked for a password reset already; each call can add one request
InitTx ==
  /\ now = 0
  /\ InitAuth
  /\ InitRL
  /\ backup_Codes = IF twoFactorSettings[SetupUser].present
                      THEN backupCodeRows(SetupUser, generateBackupCodes(0))
                      ELSE {}
  /\ setups = [p \in SetupIds |-> IdleSetup]
  /\ probe = NoProbe
  /\ password_Resets \in
       { [token \in TxIds |-> IF token = 1 THEN first ELSE NoReset] :
           first \in {NoReset, [present |-> TRUE, user_id |-> ResetUser,
                                expires_at |-> TOKEN_EXPIRY_MS, is_used |-> FALSE]} }
  /\ InitMail
  /\ InitSSO

\* both accounts are signed in: each holds the pair login gave it at 0
InitLogout ==
  LET first == generateTokens(1, 0, {}, {}, FALSE)
      second == generateTokens(2, 0, {first.tokens}, first.table, FALSE)
  IN /\ now = 0
     /\ users = [id \in UserIds |->
          IF id = 1 THEN [username |-> Alice, password_hash |-> hashPassword(Secret1A),
                          password_changed_at |-> -1]
                    ELSE [username |-> Bob, password_hash |-> hashPassword(Hunter2B),
                          password_changed_at |-> -1]]
     /\ twoFactorSettings = [id \in UserIds |->
          IF id = 1 THEN [present |-> TRUE, secret |-> 11, is_enabled |-> TRUE,
                          enabled_at |-> 0]
                    ELSE NoSettings]
     /\ refresh_Tokens = second.table
     /\ blacklisted_Tokens = << >>
     /\ issued = {first.tokens, second.tokens}
     /\ last = NoCall
     /\ InitRL
     /\ InitAcct
     /\ InitMail
     /\ InitSSO

NextLogout == Logout \/ VerifyRefresh \/ Tick

SpecLogout == InitLogout /\ [][NextLogout]_vars

NextTx ==
  \/ \E p \in TxIds, token \in TxIds \cup {0}, newPassword \in NewPasswords :
       ResetPasswordFind(p, token, newPassword)
  \/ \E p \in TxIds, fault \in BOOLEAN : ResetPasswordWrite(p, fault)
  \/ \E p \in TxIds, id \in {ResetUser, 0}, fault \in BOOLEAN :
       ForgotPasswordFind(p, id, fault)
  \/ \E p \in TxIds, fault \in BOOLEAN : ForgotPasswordCreate(p, fault)

SpecTx == InitTx /\ [][NextTx]_vars

\* the logins of SpecFlags meet accounts whose is_active and email_verified
\* columns hold either value, and the accounts register adds; an account
\* that never began the 2FA setup has no row of Two_Factor_Settings
InitFlags ==
  /\ now = 0
  /\ users = [id \in UserIds |->
       IF id = 1 THEN [username |-> Alice, password_hash |-> hashPassword(Secret1A),
                       password_changed_at |-> -1]
                 ELSE [username |-> Bob, password_hash |-> hashPassword(Hunter2B),
                       password_changed_at |-> -1]]
  /\ twoFactorSettings \in
       { [id \in 1..MaxAccounts |->
            CASE id = 1 -> [present |-> TRUE, secret |-> 11, is_enabled |-> TRUE,
                            enabled_at |-> 0]
              [] id = 2 -> s
              [] OTHER -> NoSettings] :
           s \in {NoSettings, [present |-> TRUE, secret |-> 22, is_enabled |-> FALSE,
                            enabled_at |-> -1]} }
  /\ refresh_Tokens = {}
  /\ blacklisted_Tokens = <<>>
  /\ issued = {}
  /\ last = NoCall
  /\ InitRL
  /\ password_Resets = [token \in ResetTokens |-> NoReset]
  /\ backup_Codes = {}
  /\ setups = [p \in SetupIds |-> IdleSetup]
  /\ probe = NoProbe
  /\ email_verified \in [UserIds -> BOOLEAN]
  /\ email_Verifications = << >>
  /\ failedLogins = 0
  /\ is_active \in [UserIds -> BOOLEAN]
  /\ stateCache = [s \in States |-> NoState]
  /\ login_Methods = {}
  /\ ssoStates = << >>
  /\ txs = [p \in TxIds |-> IdleTx]

\* the codes a caller of SpecFlags presents: none, a wrong one, and the
\* current one of the first account
SigninCodes(t) ==
  {NoCode, [digits |-> 5, val |-> 12345], totpCode(11, totpCounter(t))}

SigninAny ==
  \E username \in Usernames, password \in Passwords, code \in SigninCodes(now),
     fault \in Faults : login(username, password, code, fault)

NextFlags == Register \/ SigninAny

SpecFlags == InitFlags /\ [][NextFlags]_vars

NextSSO == GetSSOAuthorizationUrl \/ HandleSSOCallback \/ sweep \/ TickSSO

SpecSSO == Init /\ [][NextSSO]_vars

NextLogin == Login \/ TickStep

SpecLogin == Init /\ [][NextLogin]_vars

NextTokens == Signin \/ Logout \/ Request \/ VerifyRefresh \/ Tick

SpecTokens == Init /\ [][NextTokens]_vars

NextRL ==
  \/ \E c \in CallIds, ip \in Ips : CheckSend(c, ip)
  \/ \E c \in CallIds, fault \in {"none", "unreached", "lost"} : StoreEval(c, fault)
  \/ \E c \in CallIds : CheckReturn(c)
  \/ TickWindow

InitLimiter ==
  /\ now = 0
  /\ InitAuth
  /\ twoFactorSettings[2] = NoSettings
  /\ InitRL
  /\ InitAcct
  /\ InitMail
  /\ InitSSO

SpecRL == InitLimiter /\ [][NextRL]_vars

\* logins of the account whose password is reset
ResetSignin ==
  \E password \in Passwords : login(users[ResetUser].username, password, NoCode, "none")

NextReset == ResetSignin \/ ForgotPassword \/ ResetPassword \/ Request \/ VerifyRefresh \/ Tick

SpecReset == Init /\ [][NextReset]_vars

NextTwoFactor ==
  \/ \E p \in SetupIds, fault \in BOOLEAN : Enable2FAStart(p, fault)
  \/ \E p \in SetupIds, fault \in BOOLEAN : Enable2FACommit(p, fault)
  \/ \E p \in SetupIds, code \in SetupCodesAt(now), fault \in BOOLEAN :
       Verify2FAStart(p, code, fault)
  \/ \E p \in SetupIds, fault \in BOOLEAN : Verify2FAUpdate(p, fault)
  \/ BackupCodeLogin
  \/ TickStep

SpecTwoFactor == Init /\ [][NextTwoFactor]_vars

NextTotp ==
  \/ \E secret \in {11, 22}, token \in TokensAround(now) : Verify2FATokenCall(secret, token)
  \/ TickStep

SpecTotp == Init /\ [][NextTotp]_vars

NextRegister == Register \/ GenerateEmailVerificationToken \/ VerifyEmail \/ Tick

SpecRegister == Init /\ [][NextRegister]_vars

\* verifyEmail over the tables a database can hold: the rows of one
\* account, with tokens of six characters and tokens as register draws them
VerifyUser == 2

VerificationRows ==
  { [user_id |-> VerifyUser, token |-> token, expires_at |-> expires_at,
     is_used |-> is_used] :
      token \in {[len |-> CODE_LENGTH, val |-> 1], [len |-> CODE_LENGTH, val |-> 2],
                 randomHex(TOKEN_BYTE_LENGTH, 1)},
      expires_at \in {TOKEN_EXPIRY_MS},
      is_used \in BOOLEAN }

InitVerifyEmail ==
  /\ now = 0
  /\ InitAuth
  /\ InitRL
  /\ InitAcct
  /\ email_verified \in {[id \in UserIds |-> id = VerifyUser /\ flag] : flag \in BOOLEAN}
  /\ failedLogins = 0
  /\ InitSSO
  /\ \E n \in 0..MaxVerifications :
       /\ email_Verifications \in [1..n -> VerificationRows]
       /\ \A i, j \in 1..n :
            email_Verifications[i].token = email_Verifications[j].token => i = j

NextVerifyEmail == VerifyEmail \/ Tick

SpecVerifyEmail == InitVerifyEmail /\ [][NextVerifyEmail]_vars

\* between two requests the clock moves on by the longest window, once
TickRoutes ==
  /\ now = 0
  /\ last.op \notin {"passed", "login"}
  /\ now' = Limiters.sendVerification.windowMs
  /\ UNCHANGED authVars
  /\ UNCHANGED rlVars
  /\ UNCHANGED acctVars
  /\ UNCHANGED mailVars
  /\ UNCHANGED routeVars
  /\ UNCHANGED flagVars
  /\ UNCHANGED ssoVars
  /\ UNCHANGED txVars

\* the routes, from a database in which the account may have asked for a
\* password reset already
InitRoutes ==
  /\ now = 0
  /\ InitAuth
  /\ twoFactorSettings[RouteUser] = NoSettings
  /\ redis = [k \in RouteKeys |-> NoEntry]
  /\ calls = [c \in CallIds |-> Idle]
  /\ password_Resets \in
       { [token \in ResetTokens |-> NoReset],
         [token \in ResetTokens |->
            IF token = 1 THEN [present |-> TRUE, user_id |-> RouteUser,
                               expires_at |-> TOKEN_EXPIRY_MS, is_used |-> FALSE]
            ELSE NoReset] }
  /\ backup_Codes = {}
  /\ setups = [p \in SetupIds |-> IdleSetup]
  /\ probe = NoProbe
  /\ InitMail
  /\ InitSSO

NextRoutes ==
  \/ \E r \in Routes, fault \in RouteFaults : RouteCheck(r, fault)
  \/ ServeLogin
  \/ LoginReturn
  \/ ServeForgotPassword
  \/ ServeResetPassword
  \/ ServeRegister
  \/ ServeChangePassword
  \/ ServeSendVerification
  \/ TickRoutes

SpecRoutes == InitRoutes /\ [][NextRoutes]_vars

----------------------------------------------------------------------------
(* Login and token issuance, under SpecLogin *)

\* the account that owns a username, 0 when there is none
accountOf(username) ==
  IF \E id \in DOMAIN users : users[id].username = username
    THEN CHOOSE id \in DOMAIN users : users[id].username = username
    ELSE 0

twoFactorEnabled(id) ==
  twoFactorSettings[id].present /\ twoFactorSettings[id].is_enabled

\* the request is one that login is to accept
Authenticated(username, password, code) ==
  /\ validateUsername(username)
  /\ accountOf(username) # 0
  /\ comparePassword(password, users[accountOf(username)].password_hash)
  /\ \/ ~twoFactorEnabled(accountOf(username))
     \/ verify2FAToken(twoFactorSettings[accountOf(username)].secret, code, now)

\* C1: login returns a token pair, and stores a refresh-token record, only
\* if the username is well-formed, an account has it, the password matches
\* the stored hash and, when the account's 2FA is enabled, the supplied code
\* verifies against the stored secret; otherwise nothing is issued.
C1_LoginIssuesOnlyWhenAuthenticated ==
  [][\A username \in Usernames, password \in Passwords, code \in CodesAt(now),
        fault \in Faults :
       (login(username, password, code, fault)
          /\ ~Authenticated(username, password, code))
         => /\ last'.out = NoPair
            /\ last'.code # "OK"
            /\ refresh_Tokens' = refresh_Tokens
            /\ issued' = issued]_vars

\* a login of the account with 2FA enabled has returned tokens
C1_Witness ==
  /\ last.op = "login"
  /\ last.code = "OK"
  /\ twoFactorEnabled(last.out.accessToken.user_id)
  /\ \E row \in refresh_Tokens : row.token = last.out.refreshToken

\* C5: generateTokens hands back a token pair if and only if it created the
\* record of the returned refresh token: a failed write makes it throw and
\* return nothing; when it returns, exactly one new record holds the returned
\* refresh token, owned by the account, expiring at now + the refresh lifetime.
C5_TokensIffRecord ==
  [][\A username \in Usernames, password \in Passwords, code \in CodesAt(now),
        fault \in Faults :
       login(username, password, code, fault)
         => /\ refresh_Tokens \subseteq refresh_Tokens'
            /\ (last'.out # NoPair) <=> (refresh_Tokens' # refresh_Tokens)
            /\ last'.out # NoPair =>
                 refresh_Tokens' \ refresh_Tokens =
                   { [token |-> last'.out.refreshToken,
                      user_id |-> accountOf(username),
                      expires_at |-> now + JWT_REFRESH_EXPIRES] }
            /\ fault = "persist" =>
                 /\ last'.out = NoPair
                 /\ last'.code # "OK"
                 /\ Authenticated(username, password, code)
                      => last'.code = "INTERNAL_SERVER_ERROR"]_vars

\* a login has returned tokens and the record of its refresh token is stored
C5_Witness ==
  /\ last.op = "login"
  /\ last.code = "OK"
  /\ Cardinality(refresh_Tokens) = Cardinality(issued)
  /\ \E row \in refresh_Tokens :
       /\ row.token = last.out.refreshToken
       /\ row.user_id = last.out.refreshToken.user_id
       /\ row.expires_at = last.at + JWT_REFRESH_EXPIRES

\* C6: for an account whose 2FA is not enabled, a login with the right
\* username and password returns a pair whose access token verifies at once
\* and whose refresh token has its record, so that it verifies too.
C6_PlainLoginYieldsUsableTokens ==
  [][\A username \in Usernames, password \in Passwords, code \in CodesAt(now) :
       (/\ login(username, password, code, "none")
        /\ accountOf(username) # 0
        /\ comparePassword(password, users[accountOf(username)].password_hash)
        /\ ~twoFactorEnabled(accountOf(username)))
         => /\ last'.code = "OK"
            /\ last'.out.accessToken.user_id = accountOf(username)
            /\ verifyAccessToken(last'.out.accessToken, now)
            /\ \E row \in refresh_Tokens' : row.token = last'.out.refreshToken
            /\ verifyRefreshToken(last'.out.refreshToken, now, refresh_Tokens')]_vars

\* an account without 2FA has logged in and holds tokens that verify
C6_Witness ==
  /\ last.op = "login"
  /\ last.code = "OK"
  /\ ~twoFactorEnabled(last.out.accessToken.user_id)
  /\ verifyAccessToken(last.out.accessToken, last.at)
  /\ verifyRefreshToken(last.out.refreshToken, last.at, refresh_Tokens)

----------------------------------------------------------------------------
(* Refresh-token records, logout and the blacklist, under SpecTokens *)

hasRecord(token) == \E row \in refresh_Tokens : row.token = token

\* the blacklist holds a row of the given type for the token's jti
blacklistedAs(token, type) ==
  \E i \in 1..Len(blacklisted_Tokens) :
    /\ blacklisted_Tokens[i].token_identifier = token.jti
    /\ blacklisted_Tokens[i].token_type = type

\* such a row exists and has not expired at time t
blacklistedAt(token, type, t) ==
  \E i \in 1..Len(blacklisted_Tokens) :
    /\ blacklisted_Tokens[i].token_identifier = token.jti
    /\ blacklisted_Tokens[i].token_type = type
    /\ t < blacklisted_Tokens[i].expires_at

\* C7: verifyRefreshToken accepts a token only if its signature and expiry
\* are valid and a record with exactly that token exists; a well-signed,
\* unexpired refresh token whose record was deleted is rejected.
C7_RefreshNeedsRecord ==
  (last.op = "verifyRefresh" /\ last.code = "OK")
    => /\ last.tok.sig = REFRESH_SECRET
       /\ (last.at \div 1000) < last.tok.exp
       /\ hasRecord(last.tok)

\* a well-signed, unexpired refresh token was rejected after its logout
C7_Witness ==
  /\ last.op = "verifyRefresh"
  /\ last.code = "INVALID_REFRESH_TOKEN"
  /\ last.tok.sig = REFRESH_SECRET
  /\ (last.at \div 1000) < last.tok.exp
  /\ ~hasRecord(last.tok)
  /\ \E p \in issued : p.refreshToken = last.tok

\* C8, as claimed: a record exists if and only if its refresh token is
\* unexpired and has not been logged out.
C8_RecordIffValidUnused ==
  \A p \in issued :
    hasRecord(p.refreshToken)
      <=> (/\ jwtVerify(p.refreshToken, REFRESH_SECRET, now)
           /\ ~blacklistedAs(p.refreshToken, "refresh"))

\* C8, amended: a record exists if and only if its refresh token was handed
\* out and has not been logged out, so every unexpired token that was not
\* logged out has its record; the record stays when the token expires.
C8_RecordIffIssuedNotLoggedOut ==
  /\ \A p \in issued :
       hasRecord(p.refreshToken) <=> ~blacklistedAs(p.refreshToken, "refresh")
  /\ \A row \in refresh_Tokens : \E p \in issued : row.token = p.refreshToken

\* the record of an expired refresh token is still stored; another token
\* was logged out and has none
C8_Witness ==
  /\ \E row \in refresh_Tokens :
       /\ ~jwtVerify(row.token, REFRESH_SECRET, now)
       /\ now >= row.expires_at
  /\ Len(blacklisted_Tokens) > 0

\* C9: a logout with a valid access token and a valid refresh token adds a
\* blacklist row of type access for the access token's jti, then one of type
\* refresh for the refresh token's jti, and deletes the refresh token's
\* record; from then on verifyRefreshToken rejects that refresh token.
C9_LogoutRevokesRefresh ==
  /\ [][\A accessToken \in Presentable, refresh_token \in Presentable :
          (/\ logout(accessToken, refresh_token, "none")
           /\ verifyAccessToken(accessToken, now)
           /\ verifyRefreshToken(refresh_token, now, refresh_Tokens))
            => /\ last'.code = "OK"
               /\ blacklisted_Tokens' =
                    blacklisted_Tokens \o
                      << [user_id |-> accessToken.user_id,
                          token_identifier |-> accessToken.jti,
                          token_type |-> "access",
                          expires_at |-> now + TOKEN_EXPIRY_MS],
                         [user_id |-> accessToken.user_id,
                          token_identifier |-> refresh_token.jti,
                          token_type |-> "refresh",
                          expires_at |-> now + TOKEN_EXPIRY_MS] >>
               /\ refresh_Tokens' = {row \in refresh_Tokens : row.token # refresh_token}
               /\ ~verifyRefreshToken(refresh_token, now, refresh_Tokens')]_vars
  /\ [](\A p \in issued :
          blacklistedAs(p.refreshToken, "refresh")
            => ~verifyRefreshToken(p.refreshToken, now, refresh_Tokens))

\* a logout has blacklisted both tokens of a pair, access first, and removed
\* the record of the refresh token while that token is unexpired
C9_Witness ==
  /\ last.op = "logout"
  /\ last.code = "OK"
  /\ Len(blacklisted_Tokens) >= 2
  /\ LET n == Len(blacklisted_Tokens) IN
       /\ blacklisted_Tokens[n - 1].token_type = "access"
       /\ blacklisted_Tokens[n - 1].token_identifier = last.tok.jti
       /\ blacklisted_Tokens[n].token_type = "refresh"
       /\ \E p \in issued :
            /\ p.refreshToken.jti = blacklisted_Tokens[n].token_identifier
            /\ jwtVerify(p.refreshToken, REFRESH_SECRET, now)
            /\ ~hasRecord(p.refreshToken)

\* C10: while the blacklist row of a logged-out access token is unexpired, a
\* request to a protected endpoint that presents the token is answered 401.
C10_BlacklistedAccessRejected ==
  (/\ last.op = "request"
   /\ last.tok.sig = ACCESS_SECRET
   /\ blacklistedAt(last.tok, "access", last.at))
    => last.status = 401

----------------------------------------------------------------------------
(* The rate limiter, under SpecRL *)

evaluated(c) == calls[c].pc \in {"replied", "returned"} /\ calls[c].reply > 0

\* the key holds a counter whose window has not run out
liveKey(key) == redis[key].n > 0 /\ now < redis[key].expireAt

\* C2: with a working store, the checks on one key within a window get
\* current = 1, 2, 3, ... in order; a call with current <= max returns
\* success and remaining = max - current, one with current > max returns
\* failure and remaining = 0; the first check after the window gets 1 again.
C2_CountsUpWithinWindow ==
  /\ [][\A c \in CallIds :
          StoreEval(c, "none")
            => calls'[c].reply =
                 IF liveKey(calls[c].key) THEN redis[calls[c].key].n + 1 ELSE 1]_vars
  /\ [](\A c \in CallIds :
          (calls[c].pc = "returned" /\ calls[c].reply > 0)
            => /\ calls[c].result.current = calls[c].reply
               /\ calls[c].result.success <=> calls[c].reply <= max
               /\ calls[c].result.remaining =
                    IF calls[c].reply <= max THEN max - calls[c].reply ELSE 0)

\* in one window a call was allowed at the ceiling and the next was refused;
\* a call after the window got 1 again
C2_Witness ==
  \E c, d, e \in CallIds :
    /\ calls[c].pc = "returned" /\ calls[d].pc = "returned" /\ calls[e].pc = "returned"
    /\ calls[c].key = calls[d].key /\ calls[d].key = calls[e].key
    /\ calls[c].reply = max /\ calls[c].result.success
    /\ calls[d].reply = max + 1 /\ ~calls[d].result.success
    /\ calls[d].deadline = calls[c].deadline
    /\ calls[e].reply = 1 /\ calls[e].deadline > calls[d].deadline

\* C3: the increment and the conditional expiry are one step: concurrent
\* checks on a key within one window get distinct counts, N of them get
\* 1..N and min(N, max) are allowed, and only the call that takes the
\* counter from absent to 1 sets the expiry.
C3_AtomicIncrementAndExpiry ==
  /\ [][\A c \in CallIds, fault \in {"none", "lost"} :
          StoreEval(c, fault)
            => redis'[calls[c].key].expireAt =
                 IF liveKey(calls[c].key) THEN redis[calls[c].key].expireAt
                 ELSE now + expireSeconds * 1000]_vars
  /\ [](\A c, d \in CallIds :
          (/\ c # d /\ evaluated(c) /\ evaluated(d)
           /\ calls[c].key = calls[d].key
           /\ calls[c].deadline = calls[d].deadline)
            => calls[c].reply # calls[d].reply)
  /\ [](\A key \in Keys :
          (\A c \in CallIds :
             /\ calls[c].pc = "returned" /\ calls[c].reply > 0
             /\ calls[c].key = key
             /\ calls[c].deadline = calls[1].deadline)
            => /\ {calls[c].reply : c \in CallIds} = 1..MaxCalls
               /\ Cardinality({c \in CallIds : calls[c].result.success})
                    = IF MaxCalls < max THEN MaxCalls ELSE max)

\* all the calls ran on one key within one window, during which the clock
\* has moved on, and have returned
C3_Witness ==
  /\ \A c \in CallIds :
       /\ calls[c].pc = "returned" /\ calls[c].reply > 0
       /\ calls[c].key = calls[1].key
       /\ calls[c].deadline = calls[1].deadline
  /\ now > 0
  /\ liveKey(calls[1].key)
  /\ redis[calls[1].key].n = MaxCalls

\* C4: when the store call fails, check does not throw and allows the
\* request: success = true, current = 0, remaining = max, for every key and
\* whatever the counter was.
C4_FailsOpen ==
  \A c \in CallIds :
    (calls[c].pc = "returned" /\ calls[c].reply = 0)
      => calls[c].result = [success |-> TRUE, current |-> 0, remaining |-> max]

\* a call failed, and was allowed, while the counter of its key was over
\* the ceiling
C4_Witness ==
  \E c \in CallIds :
    /\ calls[c].pc = "returned"
    /\ calls[c].reply = 0
    /\ calls[c].result.success
    /\ liveKey(calls[c].key)
    /\ redis[calls[c].key].n > max

----------------------------------------------------------------------------
(* Access-token verification and revocation records, under SpecTokens *)

----------------------------------------------------------------------------
(* Password reset, under SpecReset *)

\* the instant, in seconds, at which a token was signed
signedAt(token) ==
  token.exp - (IF token.sig = REFRESH_SECRET THEN JWT_REFRESH_EXPIRES
               ELSE JWT_ACCESS_EXPIRES) \div 1000

\* the account's password was reset after the token was signed
resetSince(token) ==
  /\ token.user_id \in DOMAIN users
  /\ users[token.user_id].password_changed_at >= 0
  /\ signedAt(token) * 1000 < users[token.user_id].password_changed_at

\* C12: after a successful resetPassword, no access token and no refresh
\* token that was issued to the account before the reset is accepted by
\* access-token or refresh-token verification.
C12_ResetInvalidatesTokens ==
  (last.op \in {"request", "verifyRefresh"} /\ last.code = "OK")
    => ~resetSince(last.tok)

\* C13: the writes of resetPassword are all or nothing: a call that succeeds
\* has set the account's password hash and password_changed_at, marked the
\* reset request used and appended the two wildcard blacklist rows (access,
\* then refresh) of the account; a call that fails at any statement leaves
\* Users, Password_Resets and Blacklisted_Tokens as they were.
C13_ResetAllOrNothing ==
  [][\A token \in ResetTokens \cup {0}, newPassword \in NewPasswords,
        fault \in ResetFaults :
       resetPassword(token, newPassword, fault)
         => IF last'.code = "OK"
              THEN LET id == password_Resets[token].user_id IN
                /\ users'[id].password_hash = hashPassword(newPassword)
                /\ users'[id].password_changed_at = now
                /\ \A other \in DOMAIN users \ {id} : users'[other] = users[other]
                /\ password_Resets'[token].is_used
                /\ blacklisted_Tokens' = blacklisted_Tokens \o
                     << [user_id |-> id, token_identifier |-> WILDCARD,
                         token_type |-> "access",
                         expires_at |-> now + TOKEN_EXPIRY_MS],
                        [user_id |-> id, token_identifier |-> WILDCARD,
                         token_type |-> "refresh",
                         expires_at |-> now + TOKEN_EXPIRY_MS] >>
              ELSE /\ users' = users
                   /\ password_Resets' = password_Resets
                   /\ blacklisted_Tokens' = blacklisted_Tokens]_vars

\* a reset with an open request failed inside the transaction, and the
\* password, the request and the blacklist are as before
C13_Witness ==
  /\ last.op = "resetPassword"
  /\ last.code = "INTERNAL_SERVER_ERROR"
  /\ \E token \in ResetTokens : findResetRequest(password_Resets, token, now)
  /\ users[ResetUser].password_changed_at = -1
  /\ users[ResetUser].password_hash = hashPassword(Hunter2B)
  /\ blacklisted_Tokens = <<>>

\* the reset request of a token is there, unexpired and unused
usableRequest(token) ==
  /\ token \in ResetTokens
  /\ password_Resets[token].present
  /\ now < password_Resets[token].expires_at
  /\ password_Resets[token].is_used = FALSE

\* C14: resetPassword succeeds only for a token whose reset request exists,
\* is unexpired and is unused; for any other token it changes nothing and,
\* given a well-formed new password and a reachable store, fails with
\* INVALID_RESET_TOKEN (401); a request that was used stays used, so every
\* later call with the token of a successful reset fails in that way.
C14_ResetTokenSingleUse ==
  [][/\ \A token \in ResetTokens \cup {0}, newPassword \in NewPasswords,
           fault \in ResetFaults :
          resetPassword(token, newPassword, fault)
            => /\ last'.code = "OK" => usableRequest(token)
               /\ ~usableRequest(token)
                    => /\ last'.code # "OK"
                       /\ users' = users
                       /\ password_Resets' = password_Resets
                       /\ blacklisted_Tokens' = blacklisted_Tokens
               /\ (~usableRequest(token) /\ validatePassword(newPassword)
                     /\ fault = "none")
                    => (last'.code = "INVALID_RESET_TOKEN" /\ last'.status = 401)
               /\ (last'.code = "OK") => ~usableRequest(token)'
     /\ \A token \in ResetTokens :
          password_Resets[token].is_used => password_Resets'[token].is_used]_vars

\* a reset succeeded, and a later reset was refused with INVALID_RESET_TOKEN
\* while the used request is still unexpired
C14_Witness ==
  /\ last.op = "resetPassword"
  /\ last.code = "INVALID_RESET_TOKEN"
  /\ last.status = 401
  /\ users[ResetUser].password_changed_at >= 0
  /\ \E token \in ResetTokens :
       /\ password_Resets[token].is_used
       /\ now < password_Resets[token].expires_at

----------------------------------------------------------------------------
(* Two-factor setup, under SpecTwoFactor *)

setupSettings == twoFactorSettings[SetupUser]

\* call p finished at this step with the given error and nothing was written
refusedWith(p, error) ==
  /\ setups'[p].pc = "done"
  /\ setups'[p].result = error
  /\ twoFactorSettings' = twoFactorSettings
  /\ backup_Codes' = backup_Codes

\* C15: verify2FA sets is_enabled to true, and enabled_at to the time of the
\* update, only in a call whose code verified against the secret the call
\* read from the account's settings; a call with a code that does not verify
\* ends with INVALID_2FA_CODE and leaves is_enabled false.
C15_ActivationNeedsValidCode ==
  [][/\ \A p \in SetupIds, code \in SetupCodesAt(now) :
          Verify2FAStart(p, code, FALSE)
            => /\ setups'[p].pc = "verified"
                    => /\ setupSettings.present
                       /\ verify2FAToken(setupSettings.secret, code, now)
                       /\ setups'[p].secret = setupSettings.secret
               /\ (/\ setupSettings.present
                   /\ ~setupSettings.is_enabled
                   /\ ~verify2FAToken(setupSettings.secret, code, now))
                    => /\ refusedWith(p, "INVALID_2FA_CODE")
                       /\ ~twoFactorSettings'[SetupUser].is_enabled
     /\ (~setupSettings.is_enabled /\ twoFactorSettings'[SetupUser].is_enabled)
          => /\ twoFactorSettings'[SetupUser].enabled_at = now
             /\ \E p \in SetupIds :
                  /\ setups[p].op = "verify2FA"
                  /\ setups[p].pc = "verified"
                  /\ setups'[p].pc = "done"
                  /\ setups'[p].result = "OK"]_vars

\* one verify2FA call was refused for its code, a later one activated the
\* account's 2FA at a later time
C15_Witness ==
  /\ setups[1].op = "verify2FA" /\ setups[1].result = "INVALID_2FA_CODE"
  /\ setups[2].op = "verify2FA" /\ setups[2].result = "OK"
  /\ setupSettings.is_enabled
  /\ setupSettings.enabled_at > 0
  /\ setupSettings.secret = setups[2].secret

\* C16: enable2FA on an account whose 2FA is enabled fails with
\* TWO_FACTOR_ALREADY_ENABLED and changes neither the secret, the enabled
\* flag nor the backup codes; verify2FA fails with INVALID_STATE on an
\* account without settings and with TWO_FACTOR_ALREADY_ENABLED on an
\* enabled account, without changing anything.
C16_SetupStateErrors ==
  [][/\ \A p \in SetupIds :
          (Enable2FAStart(p, FALSE) /\ setupSettings.is_enabled)
            => refusedWith(p, "TWO_FACTOR_ALREADY_ENABLED")
     /\ \A p \in SetupIds, code \in SetupCodesAt(now) :
          Verify2FAStart(p, code, FALSE)
            => /\ ~setupSettings.present => refusedWith(p, "INVALID_STATE")
               /\ setupSettings.is_enabled
                    => refusedWith(p, "TWO_FACTOR_ALREADY_ENABLED")]_vars

\* on the enabled account an enable2FA call and a verify2FA call were both
\* refused, and the secret and the backup codes are those of the setup
C16_Witness ==
  /\ \E p \in SetupIds :
       setups[p].op = "enable2FA" /\ setups[p].result = "TWO_FACTOR_ALREADY_ENABLED"
  /\ \E p \in SetupIds :
       setups[p].op = "verify2FA" /\ setups[p].result = "TWO_FACTOR_ALREADY_ENABLED"
  /\ setupSettings.is_enabled
  /\ setupSettings.secret = 22
  /\ backup_Codes = backupCodeRows(SetupUser, generateBackupCodes(0))

\* C17: once the account's 2FA is enabled, no step of any enable2FA or
\* verify2FA call, however the calls interleave, changes the secret or
\* clears is_enabled.
C17_SecretImmutableOnceEnabled ==
  [][setupSettings.is_enabled
       => /\ twoFactorSettings'[SetupUser].is_enabled
          /\ twoFactorSettings'[SetupUser].secret = setupSettings.secret]_vars

\* the rows of the account under setup
setupCodes(table) == {row \in table : row.user_id = SetupUser}

\* C18: the transaction of enable2FA stores the new secret, the one returned
\* to the caller, with is_enabled false, removes all backup codes the
\* account had and stores exactly 8 new ones, unused, as the SHA-256 hashes
\* of the codes returned to the caller; if the transaction fails neither
\* the settings nor the backup codes change.
C18_SetupStoresSecretAndCodes ==
  [][\A p \in SetupIds, fault \in BOOLEAN :
       Enable2FACommit(p, fault)
         => IF fault
              THEN /\ twoFactorSettings' = twoFactorSettings
                   /\ backup_Codes' = backup_Codes
                   /\ setups'[p].result = "INTERNAL_SERVER_ERROR"
              ELSE /\ setups'[p].result = "OK"
                   /\ twoFactorSettings'[SetupUser].present
                   /\ twoFactorSettings'[SetupUser].secret = setups'[p].secret
                   /\ setups'[p].secret = generate2FASecret(p)
                   /\ ~twoFactorSettings'[SetupUser].is_enabled
                   /\ Cardinality(setupCodes(backup_Codes')) = 8
                   /\ \A row \in setupCodes(backup_Codes') : ~row.is_used
                   /\ {row.code_hash : row \in setupCodes(backup_Codes')}
                        = {hashBackupCode(generateBackupCodes(p)[i]) : i \in 1..8}
                   /\ \A row \in setupCodes(backup_Codes) :
                        row \notin backup_Codes']_vars

\* two setups were begun one after the other; the stored secret and the
\* eight stored codes are those of the second
C18_Witness ==
  /\ setups[1].op = "enable2FA" /\ setups[1].result = "OK"
  /\ setups[2].op = "enable2FA" /\ setups[2].result = "OK"
  /\ setupSettings.secret = generate2FASecret(2)
  /\ ~setupSettings.is_enabled
  /\ Cardinality(backup_Codes) = 8
  /\ backup_Codes = backupCodeRows(SetupUser, generateBackupCodes(2))

\* the code whose hash a stored row holds
codeOfRow(row) == CHOOSE c \in HandedOutCodes : row.code_hash = hashBackupCode(c)

----------------------------------------------------------------------------
(* TOTP verification, under SpecTotp *)

\* the time steps for which a caller may hold a code
CodeSteps == 0..(MaxSteps + StepSlack)

\* C20: verify2FAToken(S, c) at a time in step V is true if c is the 6-digit
\* code of secret S for a step T with T-1 <= V <= T+1 (steps of 30 seconds),
\* false if c is the code of S for steps outside that range only, false for
\* the code of another secret, and false, not an error, for a token that is
\* not a 6-digit code.
C20_TotpWindow ==
  probe.at >= 0 =>
    LET V == (probe.at \div 1000) \div 30
        stepsOf == {T \in CodeSteps : probe.token = totpCode(probe.secret, T)}
    IN /\ probe.result \in BOOLEAN
       /\ probe.result <=> (\E T \in stepsOf : T - 1 <= V /\ V <= T + 1)
       /\ probe.token.digits # 6 => ~probe.result

\* in one time step the code of the step before was accepted
C20_Witness ==
  /\ probe.at >= TOTP_STEP * 1000
  /\ probe.result
  /\ probe.token = totpCode(probe.secret, totpCounter(probe.at) - 1)

----------------------------------------------------------------------------
(* Errors of login, under SpecLogin *)

C22_NoUsernameEnumeration ==
  [][\A username \in Usernames :
       (validateUsername(username) /\ accountOf(username) = 0)
         => \A password \in Passwords, code \in CodesAt(now) :
              login(username, password, code, "none")
                => /\ last'.code = "INVALID_CREDENTIALS"
                   /\ last'.status = 401
                   /\ last'.message = "auth.errors.invalidCredentials"
                   /\ \A other \in Usernames, wrong \in Passwords :
                        (/\ accountOf(other) # 0
                         /\ ~comparePassword(wrong, users[accountOf(other)].password_hash))
                          => login(other, wrong, code, "none")]_vars

\* a login was refused with INVALID_CREDENTIALS when tokens had been issued
C22_Witness ==
  /\ last.op = "login"
  /\ last.code = "INVALID_CREDENTIALS"
  /\ last.message = "auth.errors.invalidCredentials"
  /\ issued # {}

----------------------------------------------------------------------------
(* Errors of logout, under SpecTokens *)

\* the identifiers the rows of a blacklist revoke
revoked(blacklist) ==
  { <<blacklist[i].user_id, blacklist[i].token_identifier, blacklist[i].token_type>> :
      i \in 1..Len(blacklist) }

\* C23: a logout with a valid access token and a refresh token that is
\* absent or fails verification succeeds: it adds exactly one blacklist row,
\* of type access for the access token's jti, adds no refresh row and
\* deletes no refresh-token record.
C23_LogoutWithoutUsableRefresh ==
  [][\A accessToken \in Presentable, refresh_token \in Presentable \cup {NoToken},
        fault \in {"none", "verify"} :
       (/\ logout(accessToken, refresh_token, fault)
        /\ verifyAccessToken(accessToken, now)
        /\ \/ refresh_token = NoToken
           \/ fault = "verify"
           \/ ~verifyRefreshToken(refresh_token, now, refresh_Tokens))
         => /\ last'.code = "OK"
            /\ blacklisted_Tokens' =
                 Append(blacklisted_Tokens,
                        blacklistRow(accessToken.user_id, accessToken.jti, "access", now))
            /\ refresh_Tokens' = refresh_Tokens]_vars

\* a logout succeeded and left one access row and the refresh-token record
C23_Witness ==
  /\ last.op = "logout"
  /\ last.code = "OK"
  /\ Len(blacklisted_Tokens) = 1
  /\ blacklisted_Tokens[1].token_type = "access"
  /\ blacklisted_Tokens[1].token_identifier = last.tok.jti
  /\ refresh_Tokens # {}

\* C24: a logout with an access token that fails verification is answered
\* INVALID_TOKEN (401) and leaves the blacklist and the refresh-token table
\* as they were, whatever refresh token came with it.
C24_LogoutNeedsValidAccessToken ==
  [][\A accessToken \in Presentable, refresh_token \in Presentable \cup {NoToken},
        fault \in LogoutFaults :
       (logout(accessToken, refresh_token, fault) /\ ~verifyAccessToken(accessToken, now))
         => /\ last'.code = "INVALID_TOKEN"
            /\ last'.status = 401
            /\ blacklisted_Tokens' = blacklisted_Tokens
            /\ refresh_Tokens' = refresh_Tokens]_vars

\* a logout with a forged access token was refused while a refresh-token
\* record was there to delete
C24_Witness ==
  /\ last.op = "logout"
  /\ last.code = "INVALID_TOKEN"
  /\ last.tok.sig = OTHER_SECRET
  /\ blacklisted_Tokens = << >>
  /\ refresh_Tokens # {}

----------------------------------------------------------------------------
(* Email verification, under SpecRegister and SpecVerifyEmail *)

\* C26: verifyEmail with the token of an unexpired, unused verification
\* record that register or generateEmailVerificationToken made for the
\* account succeeds: email_verified becomes true and the record is marked
\* used.
C26_IssuedCodeVerifies ==
  [][\A userId \in DOMAIN users, i \in 1..Len(email_Verifications) :
       (/\ email_Verifications[i].user_id = userId
        /\ ~email_Verifications[i].is_used
        /\ email_Verifications[i].expires_at > now
        /\ ~email_verified[userId]
        /\ verifyEmail(userId, email_Verifications[i].token, "none"))
         => /\ last'.code = "OK"
            /\ email_verified'[userId]
            /\ email_Verifications'[i].is_used]_vars

\* C27: verifyEmail answers INVALID_CODE to a code that is not of six
\* characters, EMAIL_ALREADY_VERIFIED to a code of six characters for a
\* verified account, and INVALID_CODE to a code of six characters that has
\* no unexpired unused record of the account; every failure leaves
\* email_verified and the verification records as they were, and is_used
\* and email_verified change together or not at all.
C27_VerifyEmailFailures ==
  [][\A userId \in DOMAIN users, code \in EmailCodes, fault \in VerifyFaults :
       verifyEmail(userId, code, fault)
         => /\ fault = "none"
                 => /\ code.len # CODE_LENGTH => last'.code = "INVALID_CODE"
                    /\ (code.len = CODE_LENGTH /\ email_verified[userId])
                         => last'.code = "EMAIL_ALREADY_VERIFIED"
                    /\ (/\ code.len = CODE_LENGTH
                        /\ ~email_verified[userId]
                        /\ usableVerifications(email_Verifications, userId, code, now) = {})
                         => last'.code = "INVALID_CODE"
            /\ last'.code # "OK"
                 => /\ email_verified' = email_verified
                    /\ email_Verifications' = email_Verifications
            /\ (email_verified' # email_verified)
                 <=> (email_Verifications' # email_Verifications)
            /\ last'.code = "OK"
                 => /\ email_verified'[userId]
                    /\ \E i \in usableVerifications(email_Verifications, userId, code, now) :
                         email_Verifications' =
                           [email_Verifications EXCEPT ![i].is_used = TRUE]]_vars

\* a code of six characters was refused after its record had expired, and
\* the record and the account are as they were
C27_Witness ==
  /\ last.op = "verifyEmail"
  /\ last.code = "INVALID_CODE"
  /\ last.given.len = CODE_LENGTH
  /\ ~email_verified[last.user]
  /\ \E i \in 1..Len(email_Verifications) :
       /\ email_Verifications[i].user_id = last.user
       /\ email_Verifications[i].token = last.given
       /\ ~email_Verifications[i].is_used
       /\ email_Verifications[i].expires_at <= now

----------------------------------------------------------------------------
(* forgotPassword, under SpecReset *)

\* the unexpired unused reset requests of an account
openRequests(id) ==
  { token \in DOMAIN password_Resets :
      /\ password_Resets[token].present
      /\ password_Resets[token].user_id = id
      /\ ~password_Resets[token].is_used
      /\ password_Resets[token].expires_at > now }

\* C28: forgotPassword answers success whether or not the email is
\* registered; for an email no account has it creates no request and sends
\* no mail; for an account with an unexpired unused request it mails that
\* request's token and creates none; otherwise it creates exactly one new
\* unused request and mails its token.
C28_ForgotPasswordReusesRequests ==
  [][\A id \in {ResetUser, 0} :
       forgotPassword(id, FALSE)
         => /\ last'.code = "OK"
            /\ last'.status = 200
            /\ id = 0
                 => /\ password_Resets' = password_Resets
                    /\ last'.mail = 0
            /\ (id # 0 /\ openRequests(id) # {})
                 => /\ password_Resets' = password_Resets
                    /\ last'.mail \in openRequests(id)
            /\ (id # 0 /\ openRequests(id) = {})
                 => \E token \in DOMAIN password_Resets :
                      /\ ~password_Resets[token].present
                      /\ password_Resets' =
                           [password_Resets EXCEPT ![token] =
                              [present |-> TRUE, user_id |-> id,
                               expires_at |-> now + TOKEN_EXPIRY_MS,
                               is_used |-> FALSE]]
                      /\ last'.mail = token]_vars

\* an open request was mailed again at a later time, and no other was made
C28_Witness ==
  /\ last.op = "forgotPassword"
  /\ last.code = "OK"
  /\ last.mail = 1
  /\ last.at > 0
  /\ password_Resets[1].expires_at > last.at
  /\ \A token \in DOMAIN password_Resets : token # 1 => ~password_Resets[token].present

----------------------------------------------------------------------------
(* Rate limiting of the routes, under SpecRoutes *)

\* what the services keep: accounts, tokens, reset requests, verifications
serviceState ==
  <<users, twoFactorSettings, refresh_Tokens, blacklisted_Tokens, issued,
    password_Resets, backup_Codes, email_verified, email_Verifications>>

ServiceOps ==
  {"login", "forgotPassword", "resetPassword", "register", "changePassword",
   "generateEmailVerificationToken"}

\* C29: in the login, forgot-password, reset-password, register,
\* password-change and verification-mail routes a service answers, or the
\* state the services keep changes, only in the step after the route's
\* limiter was consulted and returned success; a check that returns
\* success = false is answered 429 RATE_LIMIT_EXCEEDED and changes none of
\* that state.
C29_LimiterBeforeService ==
  [][/\ (last' # last /\ last'.op \in {"route", "passed"}
           /\ last'.result # NoResult /\ ~last'.result.success)
          => /\ last'.op = "route"
             /\ last'.code = "RATE_LIMIT_EXCEEDED"
             /\ last'.status = 429
     /\ (last' # last /\ last'.op = "route" /\ last'.code = "RATE_LIMIT_EXCEEDED")
          => /\ ~last'.result.success
             /\ serviceState' = serviceState
     /\ ((last' # last /\ last'.op \in ServiceOps) \/ serviceState' # serviceState)
          => /\ last.op = "passed"
             /\ last.result.success
             /\ endpointOf(last') = last.route]_vars

\* a login request was turned away with 429 after an earlier one had been
\* given its tokens
C29_Witness ==
  /\ last.op = "route"
  /\ last.route = "login"
  /\ last.code = "RATE_LIMIT_EXCEEDED"
  /\ last.status = 429
  /\ issued # {}

\* C30: the counter of the login limiter advances only when a failed login
\* is recorded, and a login request is rejected with 429 only after five
\* failed logins were processed in the window.
C30_FiveFailedLogins ==
  [][/\ redis'[routeKey("login")] # redis[routeKey("login")]
          => (last.op = "login" /\ last.code = "INVALID_CREDENTIALS")
     /\ (last' # last /\ last'.op = "route" /\ last'.route = "login"
           /\ last'.code = "RATE_LIMIT_EXCEEDED")
          => failedLogins >= Limiters.login.max]_vars

----------------------------------------------------------------------------
(* Retention of blacklist rows against token lifetimes, under SpecTokens *)

\* the tokens that were issued, with the type logout records for them
issuedTokens ==
  {[type |-> "access", tok |-> p.accessToken] : p \in issued}
    \cup {[type |-> "refresh", tok |-> p.refreshToken] : p \in issued}

\* C31: the retention of a blacklist row is at least the longest token
\* lifetime, so no blacklist row of an issued token expires before the
\* token itself does.
C31_RetentionCoversLifetime ==
  \A i \in 1..Len(blacklisted_Tokens) : \A e \in issuedTokens :
    (/\ blacklisted_Tokens[i].token_identifier = e.tok.jti
     /\ blacklisted_Tokens[i].token_type = e.type)
      => blacklisted_Tokens[i].expires_at >= e.tok.exp * 1000

----------------------------------------------------------------------------
(* How failures are reported, under SpecTokens *)

\* the error kinds login and logout name
NamedCodes ==
  {"INVALID_USERNAME", "INVALID_CREDENTIALS", "TWO_FACTOR_REQUIRED",
   "INVALID_2FA_CODE", "INVALID_TOKEN"}

\* C32: login and logout report a failure as one of the named error kinds
\* or as INTERNAL_SERVER_ERROR (500), and a store error that interrupts an
\* otherwise successful call is reported only as INTERNAL_SERVER_ERROR (500).
C32_StoreErrorsAreInternal ==
  [][/\ (last' # last /\ last'.op \in {"login", "logout"} /\ last'.code # "OK")
          => last'.code \in NamedCodes \cup {"INTERNAL_SERVER_ERROR"}
     /\ \A username \in {Alice, Bob}, password \in Passwords,
           code \in {NoCode, totpCode(11, totpCounter(now))} :
          (/\ loginChecks(users, twoFactorSettings, username, password, code,
                          "none", now) = "PASS"
           /\ login(username, password, code, "persist"))
            => (last'.code = "INTERNAL_SERVER_ERROR" /\ last'.status = 500)
     /\ \A accessToken \in Presentable, refresh_token \in Presentable \cup {NoToken} :
          (/\ verifyAccessToken(accessToken, now)
           /\ logout(accessToken, refresh_token, "transaction"))
            => (last'.code = "INTERNAL_SERVER_ERROR" /\ last'.status = 500)]_vars

----------------------------------------------------------------------------
(* The limiter calls of one login request, under SpecRoutes *)

\* C33: a login request that fails with INVALID_CREDENTIALS consults the
\* login limiter once, in the initial check: after login has thrown, the
\* handler answers without touching the counter of the key again.
C33_OneCheckPerFailedLogin ==
  [][(last.op = "login" /\ last.code = "INVALID_CREDENTIALS")
       => redis'[routeKey("login")] = redis[routeKey("login")]]_vars

----------------------------------------------------------------------------
(* The CSRF states of the SSO flow, under SpecSSO *)

\* the callback was turned away by the validation of provider and state
turnedAway(response) == response.code \in {"INVALID_PROVIDER", "INVALID_SSO_CODE"}

\* C34: handleSSOCallback goes past the state validation only for a state
\* that getSSOAuthorizationUrl handed out for the same provider, that is at
\* most 10 minutes old and that no earlier callback was accepted with; the
\* state is gone from the cache when the callback returns, whatever the
\* external calls did, so presenting it again is answered INVALID_SSO_CODE;
\* outside a callback only entries older than 10 minutes leave the cache.
C34_StateOneTimeUse ==
  [][/\ (last' # last /\ last'.op = "handleSSOCallback" /\ ~turnedAway(last'))
          => /\ last'.state \in 1..Len(ssoStates)
             /\ ssoStates[last'.state].provider = toLowerCase(last'.provider)
             /\ now - ssoStates[last'.state].createdAt <= STATE_TOKEN_EXPIRY
             /\ ssoStates[last'.state].accepted = 0
             /\ ~stateCache'[last'.state].present
     /\ (/\ last' # last /\ last'.op = "handleSSOCallback"
         /\ last'.state \in 1..Len(ssoStates)
         /\ ssoStates[last'.state].accepted > 0)
          => /\ turnedAway(last')
             /\ toLowerCase(last'.provider) \in SUPPORTED_PROVIDERS
                  => last'.code = "INVALID_SSO_CODE"
     /\ \A s \in States :
          (/\ stateCache[s].present
           /\ ~stateCache'[s].present
           /\ ~(last' # last /\ last'.op = "handleSSOCallback" /\ last'.state = s))
            => now - stateCache[s].createdAt > STATE_TOKEN_EXPIRY]_vars

\* a state that was accepted less than 10 minutes after it was handed out
\* is presented again for its provider and turned away
C34_Witness ==
  /\ last.op = "handleSSOCallback"
  /\ last.code = "INVALID_SSO_CODE"
  /\ last.state \in 1..Len(ssoStates)
  /\ ssoStates[last.state].accepted = 1
  /\ ssoStates[last.state].provider = toLowerCase(last.provider)
  /\ last.at - ssoStates[last.state].createdAt <= STATE_TOKEN_EXPIRY

----------------------------------------------------------------------------
(* Overlapping calls of resetPassword and forgotPassword, under SpecTx *)

\* C35: a password-reset token leads to at most one successful
\* resetPassword, also when two calls with the same token overlap.
C35_OneResetPerToken ==
  \A p, q \in TxIds :
    (/\ txs[p].op = "resetPassword" /\ txs[p].result = "OK"
     /\ txs[q].op = "resetPassword" /\ txs[q].result = "OK"
     /\ txs[p].token = txs[q].token)
      => p = q

\* C39: whatever forgotPassword calls ran, one after the other or
\* overlapping, the account has at most one unexpired, unused request.
C39_OneOpenRequest ==
  Cardinality({ token \in DOMAIN password_Resets :
                  /\ password_Resets[token].user_id = ResetUser
                  /\ findResetRequest(password_Resets, token, now) }) <= 1

----------------------------------------------------------------------------
(* The second factor on every path that issues tokens, under SpecSSO *)

enabled2FA(id) ==
  /\ id \in DOMAIN twoFactorSettings
  /\ twoFactorSettings[id].present
  /\ twoFactorSettings[id].is_enabled

\* C36: a token pair is issued for an account whose 2FA is enabled only by
\* a request that presented a TOTP code valid for the account's secret,
\* whether the request is a password login or an SSO callback.
C36_NoTokensWithoutSecondFactor ==
  [][\A p \in issued' \ issued :
       enabled2FA(p.accessToken.user_id)
         => \E password \in Passwords, code \in CodesAt(now) :
              /\ verify2FAToken(twoFactorSettings[p.accessToken.user_id].secret,
                                code, now)
              /\ login(users[p.accessToken.user_id].username, password, code, "none")]_vars

----------------------------------------------------------------------------
(* The secret 2FA is enabled on, under SpecTwoFactor *)

\* C37: whenever is_enabled of the account under setup is true, the stored
\* secret is the one against which a verify2FA call that succeeded verified
\* its code, however the calls of enable2FA and verify2FA interleave.
C37_EnabledOnConfirmedSecret ==
  setupSettings.is_enabled
    => \E p \in SetupIds :
         /\ setups[p].op = "verify2FA"
         /\ setups[p].result = "OK"
         /\ setups[p].secret = setupSettings.secret

----------------------------------------------------------------------------
(* Whose tokens a logout touches, under SpecLogout *)

\* C38: logout deletes no refresh-token record of an account other than
\* the owner of the access token, and writes no blacklist row whose
\* user_id differs from the owner of the token its token_identifier names.
C38_LogoutTouchesOwnTokensOnly ==
  [][(last' # last /\ last'.op = "logout")
       => /\ \A row \in refresh_Tokens \ refresh_Tokens' :
               row.user_id = last'.tok.user_id
          /\ \A i \in (Len(blacklisted_Tokens) + 1)..Len(blacklisted_Tokens') :
               \A e \in issuedTokens :
                 (/\ blacklisted_Tokens'[i].token_identifier = e.tok.jti
                  /\ blacklisted_Tokens'[i].token_type = e.type)
                   => blacklisted_Tokens'[i].user_id = e.tok.user_id]_vars

----------------------------------------------------------------------------
(* Login and the account flags, under SpecFlags *)

\* the accounts that have the username and whose stored hash the password
\* matches
credentialed(username, password) ==
  { id \in DOMAIN users : /\ users[id].username = username
                          /\ comparePassword(password, users[id].password_hash) }

\* what a login is to answer, told from the username, the credentials and
\* the second factor alone (and from the database failing, when it does)
flaglessOutcome(username, password, code, fault) ==
  LET answer ==
        IF credentialed(username, password) = {} THEN "INVALID_CREDENTIALS"
        ELSE LET id == CHOOSE i \in credentialed(username, password) : TRUE IN
          IF ~enabled2FA(id) THEN "OK"
          ELSE IF code = NoCode THEN "TWO_FACTOR_REQUIRED"
          ELSE IF verify2FAToken(twoFactorSettings[id].secret, code, now) THEN "OK"
          ELSE "INVALID_2FA_CODE"
  IN CASE ~validateUsername(username) -> "INVALID_USERNAME"
       [] validateUsername(username) /\ fault = "lookup" -> "INTERNAL_SERVER_ERROR"
       [] OTHER -> IF answer = "OK" /\ fault = "persist"
                     THEN "INTERNAL_SERVER_ERROR" ELSE answer

====
